---- MODULE Spec2Model ----
(***************************************************************************)
(* LuminaChain: the deterministic execution core (lumina-execution), the   *)
(* state commitment (lumina-types) and the block import / fork-choice      *)
(* layer (lumina-consensus, lumina-storage), as state machines.            *)
(*                                                                         *)
(* Abstractions, stated once:                                              *)
(*  - u64 is modelled with U64_BITS bits (TLC integers are 32-bit); the    *)
(*    genesis amounts are scaled to that width.                            *)
(*  - a 32-byte address is modelled by one byte (two nibbles); blake3 is   *)
(*    modelled as collision free: the hash of a value is an injective      *)
(*    image of the value.                                                  *)
(*  - reserve_ratio (f64) is the exact rational pool/supply in lowest      *)
(*    terms; for the small integers of the model the f64 quotient and the  *)
(*    f64 thresholds compare exactly as the rationals do.                  *)
(*  - a signature or proof is the fact it would establish.                 *)
(*  - an operation returns [ok, st]: st is the state the code leaves       *)
(*    behind, which on an error is the state at the failing statement.     *)
(***************************************************************************)
EXTENDS Integers, Sequences, FiniteSets, TLC

(* ------------------------------ bounds --------------------------------- *)
U64_BITS == 6
MaxOps == 3

U64_MAX == 2^U64_BITS - 1

None == <<>>
Some(x) == <<x>>
IsSome(o) == o # <<>>

Min(a, b) == IF a < b THEN a ELSE b
Max(a, b) == IF a > b THEN a ELSE b

(* ----------------------- checked / saturating u64 ---------------------- *)
add_overflows(lhs, rhs) == lhs + rhs > U64_MAX
sub_underflows(lhs, rhs) == lhs < rhs
saturating_add(lhs, rhs) == Min(lhs + rhs, U64_MAX)
saturating_sub(lhs, rhs) == IF lhs < rhs THEN 0 ELSE lhs - rhs
saturating_mul(lhs, rhs) == Min(lhs * rhs, U64_MAX)

(* ----------------------------- f64 ratios ------------------------------ *)
RECURSIVE gcd(_, _)
gcd(a, b) == IF b = 0 THEN a ELSE gcd(b, a % b)

\* the f64 quotient n / d (d > 0), as a rational in lowest terms
f64_div(n, d) == LET g == gcd(n, d) IN [n |-> n \div g, d |-> d \div g]
f64_zero == [n |-> 0, d |-> 1]
f64_one == [n |-> 1, d |-> 1]
\* r < a/b
f64_lt(r, a, b) == r.n * b < a * r.d

(* ------------------------------ addresses ------------------------------ *)
\* the accounts of the model: 0x00 (the genesis deployer), 0x01, 0x10
Addrs == {0, 1, 16}
ZERO_ADDR == 0

bytes_to_nibbles(b) == << (b \div 16) % 16, b % 16 >>

(* ------------------------------- state --------------------------------- *)
\* custom_balances (ticker -> amount) is read and written by Burn and Transfer
NoBalances == [t \in {} |-> 0]

AccountState_default ==
    [ nonce |-> 0, lusd_balance |-> 0, ljun_balance |-> 0, lumina_balance |-> 0,
      custom_balances |-> NoBalances, commitment |-> None, passkey_device_key |-> None, guardians |-> <<>>,
      pq_pubkey |-> None, epoch_tx_volume |-> 0, last_reward_epoch |-> 0,
      credit_score |-> 0, active_streams |-> <<>>, yield_positions |-> <<>>,
      pending_flash_mint |-> 0, pending_flash_collateral |-> 0 ]

NoAccounts == [a \in {} |-> AccountState_default]

GlobalState_default ==
    [ accounts |-> NoAccounts,
      total_lusd_supply |-> 0, total_ljun_supply |-> 0,
      stabilization_pool_balance |-> 0,
      reserve_ratio |-> f64_zero,
      oracle_prices |-> [t \in {} |-> 0],
      validators |-> <<>>,
      circuit_breaker_active |-> FALSE,
      fair_redeem_queue |-> <<>>,
      last_rebalance_height |-> 0,
      insurance_fund_balance |-> 0,
      custodians |-> <<>>,
      last_reserve_rotation_height |-> 0,
      compliance_circuits |-> [c \in {} |-> <<>>],
      rwa_listings |-> [i \in {} |-> <<>>],
      next_rwa_id |-> 0,
      trusted_credit_oracles |-> <<>>,
      used_credit_proofs |-> <<>>,
      next_yield_token_id |-> 0,
      health_index |-> 0,
      pending_flash_mints |-> 0,
      current_epoch |-> 0,
      velocity_reward_pool |-> 0,
      last_por_timestamp |-> 0,
      last_por_hash |-> None,
      executed_batch_matches |-> <<>> ]

\* 1_000_000_000 and 1_000_000 in the source, scaled to the model's u64
GenesisLumina == U64_MAX \div 2
GenesisStake == U64_MAX \div 4
\* the LUSD-USD peg, 1_000_000 in the source (fixed point 1e6), in units of 10_000
PegPrice == 100

create_genesis_state ==
    [ GlobalState_default EXCEPT
      !.accounts = (ZERO_ADDR :> [AccountState_default EXCEPT !.lumina_balance = GenesisLumina]),
      !.validators = << [pubkey |-> ZERO_ADDR, stake |-> GenesisStake, power |-> GenesisStake,
                         is_green |-> FALSE, energy_proof |-> None] >>,
      !.oracle_prices = ("ETH-USD" :> U64_MAX) @@ ("BTC-USD" :> U64_MAX) @@ ("LUSD-USD" :> PegPrice),
      !.reserve_ratio = f64_one,
      !.health_index = 10000 ]

(* --------------------------- state commitment -------------------------- *)
\* blake3 over the serialized node, collision free: the node itself
hash_node(node) == node

longest_common_extension(K, start) ==
    LET first == bytes_to_nibbles(CHOOSE k \in K : TRUE)
        agree(i) == \A k \in K : bytes_to_nibbles(k)[i] = first[i]
        n == Len(first)
        upto == CHOOSE j \in start .. n :
                    /\ \A i \in (start + 1) .. j : agree(i)
                    /\ (j < n => ~agree(j + 1))
    IN  SubSeq(first, start + 1, upto)

RECURSIVE build_hash(_, _, _)
build_hash(accounts, K, plen) ==
    IF K = {} THEN None
    ELSE IF Cardinality(K) = 1
    THEN LET k == CHOOSE x \in K : TRUE
             nib == bytes_to_nibbles(k)
         IN  Some(hash_node(<< "Leaf", SubSeq(nib, plen + 1, Len(nib)), accounts[k] >>))
    ELSE LET has_exact == \E k \in K : Len(bytes_to_nibbles(k)) = plen
             ext == IF has_exact THEN <<>> ELSE longest_common_extension(K, plen)
         IN  IF ext # <<>>
             THEN Some(hash_node(<< "Extension", ext,
                                    build_hash(accounts, K, plen + Len(ext))[1] >>))
             ELSE LET exact == {k \in K : Len(bytes_to_nibbles(k)) = plen}
                      value_at_node == IF exact = {} THEN None
                                       ELSE Some(accounts[CHOOSE k \in exact : TRUE])
                      children == [nibv \in 0 .. 15 |->
                          build_hash(accounts,
                                     {k \in K : /\ Len(bytes_to_nibbles(k)) > plen
                                                /\ bytes_to_nibbles(k)[plen + 1] = nibv},
                                     plen + 1)]
                  IN  Some(hash_node(<< "Branch", children, value_at_node >>))

\* [0u8; 32]
ZERO_ROOT == << "Zero" >>

account_trie_root(accounts) ==
    LET r == build_hash(accounts, DOMAIN accounts, 0)
    IN  IF r = None THEN ZERO_ROOT ELSE r[1]

root_hash(s) == account_trie_root(s.accounts)

(* ------------------------- crypto adapters ----------------------------- *)
\* A signature is the key and message it verifies for: "ed25519" is a valid
\* classical signature of the transaction by tx.sender, "dilithium" a valid
\* post-quantum signature by the account's pq key, "bad" verifies for nothing.
Signatures == {"ed25519", "dilithium", "bad"}
verify_signature(sender, tx) == tx.signature = "ed25519"
verify_pq_signature(pq_key, tx) == pq_key # <<>> /\ tx.signature = "dilithium"

\* A proof of reserves is empty, << "por", v >> (a Groth16 proof for the
\* public input v) or junk; its blake3 tag is the proof itself.
EmptyProof == <<>>
PoR(v) == << "por", v >>
JunkProof == << "junk" >>
verify_zk_por(proof, total_reserve) == proof = PoR(total_reserve)
blake3_hash(bytes) == bytes

(* ------------------------- instruction executor ------------------------ *)
Ok(s) == [ok |-> TRUE, st |-> s]
Err(s) == [ok |-> FALSE, st |-> s]

\* accounts.entry(a).or_default()
Entry(s, a) ==
    IF a \in DOMAIN s.accounts THEN s
    ELSE [s EXCEPT !.accounts = @ @@ (a :> AccountState_default)]

\* Core stability math: called after every monetary operation.
recalculate_ratios(s) ==
    IF s.total_lusd_supply = 0
    THEN [s EXCEPT !.reserve_ratio = f64_one]
    ELSE LET r == f64_div(s.stabilization_pool_balance, s.total_lusd_supply)
         IN  [s EXCEPT !.reserve_ratio = r,
                       !.circuit_breaker_active = IF f64_lt(r, 85, 100) THEN TRUE ELSE @]

compute_health_index(s) ==
    LET r == s.reserve_ratio
        reserve_score == IF r.n >= 2 * r.d THEN 3000 ELSE (r.n * 1500) \div r.d
        lusd_price == IF "LUSD-USD" \in DOMAIN s.oracle_prices
                      THEN s.oracle_prices["LUSD-USD"] ELSE PegPrice
        peg_dev == IF lusd_price > PegPrice THEN lusd_price - PegPrice
                   ELSE PegPrice - lusd_price
        peg_score == IF peg_dev < 5 THEN 2500 ELSE IF peg_dev < 10 THEN 1500 ELSE 500
        cb_score == IF s.circuit_breaker_active THEN 0 ELSE 1500
        insurance_score ==
            IF s.total_lusd_supply > 0
            THEN Min((s.insurance_fund_balance * 30000) \div s.total_lusd_supply, 1500)
            ELSE 1500
        total_validators == Len(s.validators)
        green_count == Cardinality({i \in 1 .. total_validators : s.validators[i].is_green})
        green_score == IF total_validators > 0
                       THEN Min((green_count * 1000) \div total_validators, 1000)
                       ELSE 500
        custodian_score == Min(Len(s.custodians), 10) * 50
    IN  [s EXCEPT !.health_index =
            Min(Min(reserve_score, 3000) + peg_score + cb_score + insurance_score
                + green_score + custodian_score, 10000)]

end_block(s) == [compute_health_index(s) EXCEPT !.pending_flash_mints = 0]

RegisterAsset(s, ticker, decimals) ==
    IF ticker = "" \/ Len(ticker) > 16 THEN Err(s)
    ELSE IF decimals > 18 THEN Err(s)
    ELSE Ok(IF ticker \in DOMAIN s.oracle_prices THEN s
            ELSE [s EXCEPT !.oracle_prices = @ @@ (ticker :> 0)])

\* (variant) a senior mint whose fee is rounded up
MintSenior_fee_rounded_up(s, sender, amount, collateral_amount, proof) ==
    IF amount = 0 \/ collateral_amount = 0 THEN Err(s)
    ELSE IF proof = EmptyProof THEN Err(s)
    ELSE IF s.circuit_breaker_active THEN Err(s)
    ELSE IF ~verify_zk_por(proof, collateral_amount) THEN Err(s)
    ELSE
    LET fee == (amount + 19) \div 20 IN
    IF add_overflows(s.insurance_fund_balance, fee) THEN Err(s) ELSE
    LET s1 == [s EXCEPT !.insurance_fund_balance = @ + fee] IN
    IF add_overflows(s1.stabilization_pool_balance, collateral_amount) THEN Err(s1) ELSE
    LET s2 == [s1 EXCEPT !.stabilization_pool_balance = @ + collateral_amount] IN
    IF sub_underflows(amount, fee) THEN Err(s2) ELSE
    LET net_amount == amount - fee
        s3 == Entry(s2, sender) IN
    IF add_overflows(s3.accounts[sender].lusd_balance, net_amount) THEN Err(s3) ELSE
    LET s4 == [s3 EXCEPT !.accounts[sender].lusd_balance = @ + net_amount] IN
    IF add_overflows(s4.total_lusd_supply, net_amount) THEN Err(s4) ELSE
    LET s5 == [s4 EXCEPT !.total_lusd_supply = @ + net_amount] IN
    IF add_overflows(s5.accounts[sender].epoch_tx_volume, amount) THEN Err(s5) ELSE
    Ok(recalculate_ratios([s5 EXCEPT !.accounts[sender].epoch_tx_volume = @ + amount]))

MintSenior(s, sender, amount, collateral_amount, proof) ==
    IF amount = 0 \/ collateral_amount = 0 THEN Err(s)
    ELSE IF proof = EmptyProof THEN Err(s)
    ELSE IF s.circuit_breaker_active THEN Err(s)
    ELSE IF ~verify_zk_por(proof, collateral_amount) THEN Err(s)
    ELSE
    LET fee == amount \div 20 IN
    IF add_overflows(s.insurance_fund_balance, fee) THEN Err(s) ELSE
    LET s1 == [s EXCEPT !.insurance_fund_balance = @ + fee] IN
    IF add_overflows(s1.stabilization_pool_balance, collateral_amount) THEN Err(s1) ELSE
    LET s2 == [s1 EXCEPT !.stabilization_pool_balance = @ + collateral_amount] IN
    IF sub_underflows(amount, fee) THEN Err(s2) ELSE
    LET net_amount == amount - fee
        s3 == Entry(s2, sender) IN
    IF add_overflows(s3.accounts[sender].lusd_balance, net_amount) THEN Err(s3) ELSE
    LET s4 == [s3 EXCEPT !.accounts[sender].lusd_balance = @ + net_amount] IN
    IF add_overflows(s4.total_lusd_supply, net_amount) THEN Err(s4) ELSE
    LET s5 == [s4 EXCEPT !.total_lusd_supply = @ + net_amount] IN
    IF add_overflows(s5.accounts[sender].epoch_tx_volume, amount) THEN Err(s5) ELSE
    Ok(recalculate_ratios([s5 EXCEPT !.accounts[sender].epoch_tx_volume = @ + amount]))

\* RedeemSenior and InstantRedeem run the same statements
redeem_lusd(s, sender, amount, timestamp) ==
    IF amount = 0 THEN Err(s) ELSE
    LET s1 == Entry(s, sender) IN
    IF s1.accounts[sender].lusd_balance < amount THEN Err(s1) ELSE
    IF s1.circuit_breaker_active \/ f64_lt(s1.reserve_ratio, 95, 100)
    THEN Ok([s1 EXCEPT
              !.fair_redeem_queue = Append(@, [address |-> sender, amount |-> amount,
                                               timestamp |-> timestamp]),
              !.accounts[sender].lusd_balance = @ - amount])
    ELSE
    LET s2 == [s1 EXCEPT !.accounts[sender].lusd_balance = @ - amount] IN
    IF sub_underflows(s2.total_lusd_supply, amount) THEN Err(s2) ELSE
    Ok(recalculate_ratios(
        [s2 EXCEPT !.total_lusd_supply = @ - amount,
                   !.stabilization_pool_balance = saturating_sub(@, amount)]))

RedeemSenior(s, sender, amount, timestamp) == redeem_lusd(s, sender, amount, timestamp)

\* (variant) an instant redeem that pays out at once whatever the stress
InstantRedeem_never_queued(s, sender, amount, destination, timestamp) ==
    IF amount = 0 THEN Err(s) ELSE
    LET s1 == Entry(s, sender) IN
    IF s1.accounts[sender].lusd_balance < amount THEN Err(s1) ELSE
    LET s2 == [s1 EXCEPT !.accounts[sender].lusd_balance = @ - amount] IN
    IF sub_underflows(s2.total_lusd_supply, amount) THEN Err(s2) ELSE
    Ok(recalculate_ratios(
        [s2 EXCEPT !.total_lusd_supply = @ - amount,
                   !.stabilization_pool_balance = saturating_sub(@, amount)]))

\* the destination is bound and dropped (let _ = destination)
InstantRedeem(s, sender, amount, destination, timestamp) ==
    IF amount = 0 THEN Err(s) ELSE
    LET s1 == Entry(s, sender) IN
    IF s1.accounts[sender].lusd_balance < amount THEN Err(s1) ELSE
    IF s1.circuit_breaker_active \/ f64_lt(s1.reserve_ratio, 95, 100)
    THEN LET s2 == [s1 EXCEPT !.fair_redeem_queue =
                        Append(@, [address |-> sender, amount |-> amount,
                                   timestamp |-> timestamp])]
         IN  Ok([s2 EXCEPT !.accounts[sender].lusd_balance = @ - amount])
    ELSE
    LET s2 == [s1 EXCEPT !.accounts[sender].lusd_balance = @ - amount] IN
    IF sub_underflows(s2.total_lusd_supply, amount) THEN Err(s2) ELSE
    LET s3 == [s2 EXCEPT !.total_lusd_supply = @ - amount] IN
    Ok(recalculate_ratios(
        [s3 EXCEPT !.stabilization_pool_balance = saturating_sub(@, amount)]))

MintJunior(s, sender, amount, collateral_amount) ==
    IF amount = 0 \/ collateral_amount = 0 THEN Err(s) ELSE
    IF add_overflows(s.stabilization_pool_balance, collateral_amount) THEN Err(s) ELSE
    LET s1 == Entry([s EXCEPT !.stabilization_pool_balance = @ + collateral_amount], sender) IN
    IF add_overflows(s1.accounts[sender].ljun_balance, amount) THEN Err(s1) ELSE
    LET s2 == [s1 EXCEPT !.accounts[sender].ljun_balance = @ + amount] IN
    IF add_overflows(s2.total_ljun_supply, amount) THEN Err(s2) ELSE
    Ok(recalculate_ratios([s2 EXCEPT !.total_ljun_supply = @ + amount]))

RedeemJunior(s, sender, amount) ==
    IF amount = 0 THEN Err(s) ELSE
    LET s1 == Entry(s, sender) IN
    IF s1.accounts[sender].ljun_balance < amount THEN Err(s1) ELSE
    LET s2 == [s1 EXCEPT !.accounts[sender].ljun_balance = @ - amount] IN
    IF sub_underflows(s2.total_ljun_supply, amount) THEN Err(s2) ELSE
    Ok(recalculate_ratios([s2 EXCEPT !.total_ljun_supply = @ - amount]))

\* the field of AccountState that holds the balance of an asset
balance_field(asset) ==
    CASE asset = "LUSD" -> "lusd_balance"
      [] asset = "LJUN" -> "ljun_balance"
      [] asset = "Lumina" -> "lumina_balance"

\* AssetType::Custom(ticker) is written "Custom:" followed by the ticker
is_custom(asset) == asset \notin {"LUSD", "LJUN", "Lumina"}
or_insert_0(balances, ticker) ==
    IF ticker \in DOMAIN balances THEN balances ELSE (ticker :> 0) @@ balances

BurnCustom(s, sender, amount, ticker) ==
    LET s1 == [Entry(s, sender) EXCEPT
                 !.accounts[sender].custom_balances = or_insert_0(@, ticker)] IN
    IF s1.accounts[sender].custom_balances[ticker] < amount THEN Err(s1) ELSE
    Ok(recalculate_ratios(
        [s1 EXCEPT !.accounts[sender].custom_balances[ticker] = @ - amount]))

TransferCustom(s, sender, to, amount, ticker) ==
    LET s1 == [Entry(s, sender) EXCEPT
                 !.accounts[sender].custom_balances = or_insert_0(@, ticker)] IN
    IF s1.accounts[sender].custom_balances[ticker] < amount THEN Err(s1) ELSE
    LET s2 == [s1 EXCEPT !.accounts[sender].custom_balances[ticker] = @ - amount]
        s3 == [Entry(s2, to) EXCEPT
                 !.accounts[to].custom_balances = or_insert_0(@, ticker)] IN
    IF add_overflows(s3.accounts[to].custom_balances[ticker], amount) THEN Err(s3) ELSE
    Ok([s3 EXCEPT !.accounts[to].custom_balances[ticker] = @ + amount])

Burn(s, sender, amount, asset) ==
    IF amount = 0 THEN Err(s) ELSE
    IF is_custom(asset) THEN BurnCustom(s, sender, amount, asset) ELSE
    LET s1 == Entry(s, sender)
        f == balance_field(asset) IN
    IF s1.accounts[sender][f] < amount THEN Err(s1) ELSE
    LET s2 == [s1 EXCEPT !.accounts[sender][f] = @ - amount]
        s3 == CASE asset = "LUSD" ->
                     [s2 EXCEPT !.total_lusd_supply = saturating_sub(@, amount)]
                [] asset = "LJUN" ->
                     [s2 EXCEPT !.total_ljun_supply = saturating_sub(@, amount)]
                [] asset = "Lumina" -> s2
    IN  Ok(recalculate_ratios(s3))

\* (variant) a transfer that credits the recipient before it debits the sender
Transfer_credit_first(s, sender, to, amount, asset) ==
    IF amount = 0 THEN Err(s) ELSE
    IF is_custom(asset) THEN TransferCustom(s, sender, to, amount, asset) ELSE
    LET s1 == Entry(Entry(s, sender), to)
        f == balance_field(asset) IN
    IF s1.accounts[sender][f] < amount THEN Err(s1) ELSE
    IF add_overflows(s1.accounts[to][f], amount) THEN Err(s1) ELSE
    LET s2 == [s1 EXCEPT !.accounts[to][f] = @ + amount] IN
    Ok([s2 EXCEPT !.accounts[sender][f] = s1.accounts[sender][f] - amount])

Transfer(s, sender, to, amount, asset) ==
    IF amount = 0 THEN Err(s) ELSE
    IF is_custom(asset) THEN TransferCustom(s, sender, to, amount, asset) ELSE
    LET s1 == Entry(s, sender)
        f == balance_field(asset) IN
    IF s1.accounts[sender][f] < amount THEN Err(s1) ELSE
    LET s2 == [s1 EXCEPT !.accounts[sender][f] = @ - amount] IN
    IF asset # "Lumina" /\ add_overflows(s2.accounts[sender].epoch_tx_volume, amount)
    THEN Err(s2) ELSE
    LET s3 == IF asset = "Lumina" THEN s2
              ELSE [s2 EXCEPT !.accounts[sender].epoch_tx_volume = @ + amount]
        s4 == Entry(s3, to) IN
    IF add_overflows(s4.accounts[to][f], amount) THEN Err(s4) ELSE
    Ok([s4 EXCEPT !.accounts[to][f] = @ + amount])

\* the percentages of the source (n / 100) in lowest terms, so that the
\* multiplication saturates only near the top of the model's u64 as it does
\* near the top of the real one
RebalanceTranches(s, height) ==
    IF s.total_lusd_supply = 0 THEN Ok(s) ELSE
    LET total_supply == saturating_add(s.total_lusd_supply, s.total_ljun_supply)
        over == total_supply > 0 /\ s.total_ljun_supply * 5 > 2 * total_supply
        excess == saturating_sub(s.total_ljun_supply, saturating_mul(total_supply, 2) \div 5)
        s1 == IF over
              THEN [s EXCEPT !.stabilization_pool_balance = saturating_add(@, excess)]
              ELSE s
    IN  Ok(recalculate_ratios([s1 EXCEPT !.last_rebalance_height = height]))

\* accounts.iter() of a HashMap: the holders of LJUN in the order the map
\* yields them, which the language leaves unspecified (order: a permutation
\* of the addresses)
accounts_snapshot(s, order) ==
    LET holds(a) == a \in DOMAIN s.accounts /\ s.accounts[a].ljun_balance > 0
        addrs == SelectSeq(order, holds)
    IN  [i \in 1 .. Len(addrs) |-> << addrs[i], s.accounts[addrs[i]].ljun_balance >>]

yield_share(s, junior_share, balance) ==
    (IF junior_share * balance > U64_MAX THEN 0 ELSE junior_share * balance)
        \div s.total_ljun_supply

\* (variant) a distribution that adds each share to the supply as it goes, so that a
\* holder's share depends on who was visited before
credit_yield_running(s, addr, share) ==
    [Entry(s, addr) EXCEPT !.accounts[addr].ljun_balance = saturating_add(@, share),
                           !.total_ljun_supply = saturating_add(@, share)]

credit_yield(s, addr, share) ==
    [Entry(s, addr) EXCEPT !.accounts[addr].ljun_balance = saturating_add(@, share)]

RECURSIVE distribute_junior(_, _, _)
distribute_junior(s, snapshot, junior_share) ==
    IF snapshot = <<>> THEN s
    ELSE LET addr == snapshot[1][1]
             share == yield_share(s, junior_share, snapshot[1][2])
         IN  distribute_junior(IF share > 0 THEN credit_yield(s, addr, share) ELSE s,
                               Tail(snapshot), junior_share)

DistributeYield(s, total_yield, order) ==
    IF total_yield = 0 THEN Ok(s) ELSE
    LET junior_share == saturating_mul(total_yield, 4) \div 5
        pool_share == saturating_mul(total_yield, 3) \div 20
        insurance_share == saturating_sub(saturating_sub(total_yield, junior_share), pool_share)
    IN
    IF add_overflows(s.stabilization_pool_balance, pool_share) THEN Err(s) ELSE
    LET s1 == [s EXCEPT !.stabilization_pool_balance = @ + pool_share] IN
    IF add_overflows(s1.insurance_fund_balance, insurance_share) THEN Err(s1) ELSE
    LET s2 == [s1 EXCEPT !.insurance_fund_balance = @ + insurance_share]
        s3 == IF s2.total_ljun_supply > 0
              THEN [distribute_junior(s2, accounts_snapshot(s2, order), junior_share)
                       EXCEPT !.total_ljun_supply = saturating_add(@, junior_share)]
              ELSE [s2 EXCEPT !.stabilization_pool_balance = saturating_add(@, junior_share)]
    IN  Ok(recalculate_ratios(s3))

TriggerStabilizer(s) ==
    LET s1 == recalculate_ratios(s) IN
    IF f64_lt(s1.reserve_ratio, 1, 1) /\ s1.insurance_fund_balance > 0
    THEN LET deficit == saturating_sub(s1.total_lusd_supply, s1.stabilization_pool_balance)
             topup == Min(deficit, s1.insurance_fund_balance)
         IN  Ok(recalculate_ratios(
                [s1 EXCEPT !.stabilization_pool_balance = saturating_add(@, topup),
                           !.insurance_fund_balance = saturating_sub(@, topup)]))
    ELSE Ok(s1)

RunCircuitBreaker(s, active) == Ok([s EXCEPT !.circuit_breaker_active = active])

RECURSIVE process_redeem_queue(_, _)
process_redeem_queue(s, to_process) ==
    IF to_process = 0 THEN s
    ELSE LET req == Head(s.fair_redeem_queue)
         IN  process_redeem_queue(
                [s EXCEPT !.fair_redeem_queue = Tail(@),
                          !.total_lusd_supply = saturating_sub(@, req.amount),
                          !.stabilization_pool_balance = saturating_sub(@, req.amount)],
                to_process - 1)

\* (variant) a queue served from its tail
RECURSIVE process_redeem_queue_from_tail(_, _)
process_redeem_queue_from_tail(s, to_process) ==
    IF to_process = 0 THEN s
    ELSE LET n == Len(s.fair_redeem_queue)
             req == s.fair_redeem_queue[n]
         IN  process_redeem_queue_from_tail(
                [s EXCEPT !.fair_redeem_queue = SubSeq(@, 1, n - 1),
                          !.total_lusd_supply = saturating_sub(@, req.amount),
                          !.stabilization_pool_balance = saturating_sub(@, req.amount)],
                to_process - 1)

FairRedeemQueue_from_tail(s, batch_size) ==
    IF s.circuit_breaker_active THEN Err(s)
    ELSE Ok(recalculate_ratios(
            process_redeem_queue_from_tail(s, Min(batch_size, Len(s.fair_redeem_queue)))))

FairRedeemQueue(s, batch_size) ==
    IF s.circuit_breaker_active THEN Err(s)
    ELSE Ok(recalculate_ratios(
            process_redeem_queue(s, Min(batch_size, Len(s.fair_redeem_queue)))))

UpdateOracle(s, asset, price) ==
    Ok(recalculate_ratios(
        [s EXCEPT !.oracle_prices = (asset :> price) @@ @]))

\* (variant) a submission that accepts the timestamp of the last one again
SubmitZkPoR_same_timestamp(s, proof, total_reserves, timestamp) ==
    IF timestamp < s.last_por_timestamp THEN Err(s) ELSE
    LET proof_id == blake3_hash(proof) IN
    IF s.last_por_hash = Some(proof_id) THEN Err(s) ELSE
    IF ~verify_zk_por(proof, total_reserves) THEN Err(s) ELSE
    Ok(recalculate_ratios(
        [s EXCEPT !.stabilization_pool_balance = total_reserves,
                  !.last_por_timestamp = timestamp,
                  !.last_por_hash = Some(proof_id)]))

SubmitZkPoR(s, proof, total_reserves, timestamp) ==
    IF timestamp <= s.last_por_timestamp THEN Err(s) ELSE
    LET proof_id == blake3_hash(proof) IN
    IF s.last_por_hash = Some(proof_id) THEN Err(s) ELSE
    IF ~verify_zk_por(proof, total_reserves) THEN Err(s) ELSE
    Ok(recalculate_ratios(
        [s EXCEPT !.stabilization_pool_balance = total_reserves,
                  !.last_por_timestamp = timestamp,
                  !.last_por_hash = Some(proof_id)]))

InstantFiatBridge(s, sender, amount) ==
    LET s1 == Entry(s, sender) IN
    IF s1.accounts[sender].lusd_balance < amount THEN Err(s1) ELSE
    LET s2 == [s1 EXCEPT !.accounts[sender].lusd_balance = @ - amount] IN
    IF sub_underflows(s2.total_lusd_supply, amount) THEN Err(s2) ELSE
    Ok(recalculate_ratios(
        [s2 EXCEPT !.total_lusd_supply = @ - amount,
                   !.stabilization_pool_balance = saturating_sub(@, amount)]))

Range(seq) == { seq[i] : i \in 1 .. Len(seq) }

\* orders are 32-byte values, so the hash of their concatenation names the
\* ordered list
MaxBatchOrders == 1000
batch_id_of(orders) == blake3_hash(<< "batch", orders >>)
has_duplicate_order(orders) ==
    \E i, j \in 1 .. Len(orders) : i < j /\ orders[i] = orders[j]

\* (variant) a batch match that never records the batch
ZeroSlipBatchMatch_unrecorded(s, orders) ==
    IF orders = << >> THEN Err(s) ELSE
    IF Len(orders) > MaxBatchOrders THEN Err(s) ELSE
    IF has_duplicate_order(orders) THEN Err(s) ELSE
    IF batch_id_of(orders) \in Range(s.executed_batch_matches) THEN Err(s) ELSE
    Ok(s)

ZeroSlipBatchMatch(s, orders) ==
    IF orders = << >> THEN Err(s) ELSE
    IF Len(orders) > MaxBatchOrders THEN Err(s) ELSE
    IF has_duplicate_order(orders) THEN Err(s) ELSE
    LET batch_id == batch_id_of(orders) IN
    IF batch_id \in Range(s.executed_batch_matches) THEN Err(s) ELSE
    Ok([s EXCEPT !.executed_batch_matches = Append(@, batch_id)])

SwitchToPQSignature(s, sender, new_pq_pubkey) ==
    IF new_pq_pubkey = <<>> THEN Err(s)
    ELSE Ok([Entry(s, sender) EXCEPT !.accounts[sender].pq_pubkey = Some(new_pq_pubkey)])

\* amount.saturating_mul(110) / 100, with the factor in lowest terms (110
\* itself is beyond the model's u64): the product saturates for the large
\* amounts only, as in the source
FlashMint(s, sender, amount, collateral_amount) ==
    IF amount = 0 THEN Err(s) ELSE
    IF collateral_amount = 0 THEN Err(s) ELSE
    LET min_collateral == saturating_mul(amount, 11) \div 10 IN
    IF collateral_amount < min_collateral THEN Err(s) ELSE
    IF add_overflows(s.stabilization_pool_balance, collateral_amount) THEN Err(s) ELSE
    LET s1 == Entry([s EXCEPT !.stabilization_pool_balance = @ + collateral_amount], sender) IN
    IF add_overflows(s1.accounts[sender].pending_flash_mint, amount) THEN Err(s1) ELSE
    LET s2 == [s1 EXCEPT !.accounts[sender].pending_flash_mint = @ + amount] IN
    IF add_overflows(s2.accounts[sender].pending_flash_collateral, collateral_amount)
    THEN Err(s2) ELSE
    LET s3 == [s2 EXCEPT !.accounts[sender].pending_flash_collateral = @ + collateral_amount] IN
    IF add_overflows(s3.accounts[sender].lusd_balance, amount) THEN Err(s3) ELSE
    LET s4 == [s3 EXCEPT !.accounts[sender].lusd_balance = @ + amount] IN
    IF add_overflows(s4.total_lusd_supply, amount) THEN Err(s4) ELSE
    LET s5 == [s4 EXCEPT !.total_lusd_supply = @ + amount] IN
    IF add_overflows(s5.pending_flash_mints, amount) THEN Err(s5) ELSE
    Ok([s5 EXCEPT !.pending_flash_mints = @ + amount])

\* (variant) a flash burn that releases the burnt amount from the pool
\* instead of the collateral that was locked
FlashBurn_releases_amount(s, sender, amount) ==
    IF amount = 0 THEN Err(s) ELSE
    LET s1 == Entry(s, sender)
        account == s1.accounts[sender] IN
    IF account.pending_flash_mint = 0 THEN Err(s1) ELSE
    IF amount # account.pending_flash_mint THEN Err(s1) ELSE
    IF account.lusd_balance < amount THEN Err(s1) ELSE
    LET s2 == [s1 EXCEPT !.accounts[sender].lusd_balance = @ - amount] IN
    IF sub_underflows(s2.total_lusd_supply, amount) THEN Err(s2) ELSE
    Ok([s2 EXCEPT !.total_lusd_supply = @ - amount,
                  !.pending_flash_mints = saturating_sub(@, amount),
                  !.stabilization_pool_balance = saturating_sub(@, amount),
                  !.accounts[sender].pending_flash_mint = 0,
                  !.accounts[sender].pending_flash_collateral = 0])

FlashBurn(s, sender, amount) ==
    IF amount = 0 THEN Err(s) ELSE
    LET s1 == Entry(s, sender)
        account == s1.accounts[sender] IN
    IF account.pending_flash_mint = 0 THEN Err(s1) ELSE
    IF amount # account.pending_flash_mint THEN Err(s1) ELSE
    IF account.lusd_balance < amount THEN Err(s1) ELSE
    LET s2 == [s1 EXCEPT !.accounts[sender].lusd_balance = @ - amount] IN
    IF sub_underflows(s2.total_lusd_supply, amount) THEN Err(s2) ELSE
    Ok([s2 EXCEPT !.total_lusd_supply = @ - amount,
                  !.pending_flash_mints = saturating_sub(@, amount),
                  !.stabilization_pool_balance =
                      saturating_sub(@, account.pending_flash_collateral),
                  !.accounts[sender].pending_flash_mint = 0,
                  !.accounts[sender].pending_flash_collateral = 0])

\* A credit-score proof is << "credit", v, score >>: v tells whether the range
\* proof in it verifies, score is 300 + (raw % 551) of its blake3 hash.
CreditProof(valid, score) == << "credit", valid, score >>
verify_credit_score_proof(credit_score_proof) == credit_score_proof[2]
credit_score_of(credit_score_proof) == credit_score_proof[3]

\* required_bps / 10_000 in lowest terms
required_collateral_for(amount, score) ==
    IF score >= 800 THEN saturating_mul(amount, 51) \div 50
    ELSE IF score >= 750 THEN saturating_mul(amount, 21) \div 20
    ELSE saturating_mul(amount, 11) \div 10

MintWithCreditScore(s, sender, amount, collateral_amount, credit_score_proof, min_score_threshold, oracle) ==
    IF amount = 0 THEN Err(s) ELSE
    LET oracle_allowed == oracle \in Range(s.trusted_credit_oracles)
        proof_ok == verify_credit_score_proof(credit_score_proof)
        proof_id == blake3_hash(credit_score_proof)
        is_replay == proof_id \in Range(s.used_credit_proofs)
        score == credit_score_of(credit_score_proof)
    IN
    IF ~oracle_allowed \/ ~proof_ok \/ is_replay
    THEN MintSenior(s, sender, amount, collateral_amount, EmptyProof) ELSE
    IF score < min_score_threshold
    THEN MintSenior(s, sender, amount, collateral_amount, EmptyProof) ELSE
    IF collateral_amount < required_collateral_for(amount, score) THEN Err(s) ELSE
    LET s1 == [s EXCEPT !.used_credit_proofs = Append(@, proof_id)] IN
    IF add_overflows(s1.stabilization_pool_balance, collateral_amount) THEN Err(s1) ELSE
    LET s2 == Entry([s1 EXCEPT !.stabilization_pool_balance = @ + collateral_amount],
                    sender) IN
    IF add_overflows(s2.accounts[sender].lusd_balance, amount) THEN Err(s2) ELSE
    LET s3 == [s2 EXCEPT !.accounts[sender].lusd_balance = @ + amount,
                         !.accounts[sender].credit_score = score] IN
    IF add_overflows(s3.total_lusd_supply, amount) THEN Err(s3) ELSE
    Ok(recalculate_ratios([s3 EXCEPT !.total_lusd_supply = @ + amount]))

CreatePasskeyAccount(s, sender, device_key, guardians) ==
    IF device_key = << >> \/ (\A i \in 1 .. Len(device_key) : device_key[i] = 0)
    THEN Err(s) ELSE
    IF Len(guardians) < 2 \/ Len(guardians) > 10 THEN Err(s) ELSE
    Ok([Entry(s, sender) EXCEPT !.accounts[sender].passkey_device_key = Some(device_key),
                                !.accounts[sender].guardians = guardians])

\* A guardian signature is the message it signs and the public keys it
\* verifies under (one key for an honest signature, none for garbage; more
\* than one where guardians registered keys of small order).
GuardianSig(keys, message) == [keys |-> keys, message |-> message]
verify_signature_bytes(pubkey, message, signature) ==
    pubkey \in signature.keys /\ signature.message = message

\* (variant) an inner loop that forgets which guardians already signed
match_guardian_any(guardians, used_guardians, new_device_key, sig) ==
    LET hits == { i \in 1 .. Len(guardians) :
                    verify_signature_bytes(guardians[i], new_device_key, sig) }
    IN  IF hits = {} THEN None
        ELSE Some(guardians[CHOOSE i \in hits : \A j \in hits : i <= j])

\* the inner loop: the first guardian, in list order, that is not used yet
\* and under whose key the signature verifies (None if there is none)
match_guardian(guardians, used_guardians, new_device_key, sig) ==
    LET hits == { i \in 1 .. Len(guardians) :
                    /\ guardians[i] \notin used_guardians
                    /\ verify_signature_bytes(guardians[i], new_device_key, sig) }
    IN  IF hits = {} THEN None
        ELSE Some(guardians[CHOOSE i \in hits : \A j \in hits : i <= j])

\* the outer loop: verified_count after all the signatures
RECURSIVE count_verified(_, _, _, _, _)
count_verified(guardians, sigs, used_guardians, new_device_key, verified_count) ==
    IF sigs = << >> THEN verified_count
    ELSE LET matched == match_guardian(guardians, used_guardians, new_device_key, Head(sigs))
         IN  IF matched = None
             THEN count_verified(guardians, Tail(sigs), used_guardians, new_device_key,
                                 verified_count)
             ELSE count_verified(guardians, Tail(sigs), used_guardians \cup {matched[1]},
                                 new_device_key, verified_count + 1)

RecoverSocial(s, sender, new_device_key, guardian_signatures) ==
    LET s1 == Entry(s, sender)
        account == s1.accounts[sender]
        threshold == (Len(account.guardians) \div 2) + 1
    IN
    IF account.guardians = << >> THEN Err(s1) ELSE
    IF Len(guardian_signatures) < threshold THEN Err(s1) ELSE
    IF count_verified(account.guardians, guardian_signatures, {}, new_device_key, 0)
         < threshold
    THEN Err(s1)
    ELSE Ok([s1 EXCEPT !.accounts[sender].passkey_device_key = Some(new_device_key)])

ComputeHealthIndex(s) == Ok(compute_health_index(s))

(* ----------------------------- insurance ------------------------------ *)
\* A loss proof is << "loss", v >>: v tells whether the verifier accepts it
\* for the claimed amount (an opaque boolean gate).
LossProof(valid) == << "loss", valid >>
verify_insurance_loss_proof(loss_proof, claimed_amount) == loss_proof[2]

\* the fund is debited and the claimant credited before the supply is raised:
\* an overflow of the supply leaves both
ClaimInsurance(s, sender, loss_proof, claimed_amount) ==
    IF ~verify_insurance_loss_proof(loss_proof, claimed_amount) THEN Err(s) ELSE
    IF claimed_amount > s.insurance_fund_balance THEN Err(s) ELSE
    LET s1 == Entry([s EXCEPT !.insurance_fund_balance = saturating_sub(@, claimed_amount)],
                    sender)
    IN
    IF s1.accounts[sender].lusd_balance + claimed_amount > U64_MAX THEN Err(s1) ELSE
    LET s2 == [s1 EXCEPT !.accounts[sender].lusd_balance = @ + claimed_amount] IN
    IF s2.total_lusd_supply + claimed_amount > U64_MAX THEN Err(s2) ELSE
    Ok(recalculate_ratios([s2 EXCEPT !.total_lusd_supply = @ + claimed_amount]))

(* --------------------------- yield tokens ------------------------------ *)
YieldPosition(token_id, principal, maturity_height, issued_height) ==
    [ token_id |-> token_id, principal |-> principal,
      maturity_height |-> maturity_height, issued_height |-> issued_height ]

\* the LUSD is taken before the token id is drawn: an overflow of the id
\* counter leaves the balance lowered
WrapToYieldToken(s, sender, amount, maturity_blocks, ctx) ==
    IF amount = 0 \/ maturity_blocks = 0 THEN Err(s) ELSE
    LET s1 == Entry(s, sender) IN
    IF s1.accounts[sender].lusd_balance < amount THEN Err(s1) ELSE
    LET s2 == [s1 EXCEPT !.accounts[sender].lusd_balance = @ - amount]
        token_id == s2.next_yield_token_id
    IN
    IF token_id + 1 > U64_MAX THEN Err(s2) ELSE
    LET position == YieldPosition(token_id, amount,
                                  saturating_add(ctx.height, maturity_blocks), ctx.height)
    IN  Ok([s2 EXCEPT !.next_yield_token_id = token_id + 1,
                      !.accounts[sender].yield_positions = Append(@, position)])

\* 100 * 3_153_600 (the blocks of a year, in percent) in the code; scaled to
\* the model's word so that a position held for a block or two earns a yield
YieldDivisor == 20

position_of(yield_positions, token_id) ==
    LET found == { i \in 1 .. Len(yield_positions) : yield_positions[i].token_id = token_id }
    IN  IF found = {} THEN 0 ELSE CHOOSE i \in found : \A j \in found : i <= j

remove_at(seq, i) == SubSeq(seq, 1, i - 1) \o SubSeq(seq, i + 1, Len(seq))

\* 5% a year, prorated by the blocks held
yield_earned_on(position, h) ==
    saturating_mul(saturating_mul(position.principal, 5),
                   saturating_sub(h, position.issued_height)) \div YieldDivisor
insurance_cut_of(yield_earned) == saturating_mul(yield_earned, 10) \div 100
total_return_of(position, yield_earned) ==
    saturating_add(position.principal,
                   saturating_sub(yield_earned, insurance_cut_of(yield_earned)))

\* the statements of UnwrapYieldToken from the last to the first, each on the
\* state its predecessors left: the supply, ...
unwrap_supply(s3, yield_earned) ==
    IF s3.total_lusd_supply + yield_earned > U64_MAX THEN Err(s3) ELSE
    Ok(recalculate_ratios([s3 EXCEPT !.total_lusd_supply = @ + yield_earned]))

\* ... the cut of the insurance fund, ...
unwrap_insurance(s2, yield_earned) ==
    IF s2.insurance_fund_balance + insurance_cut_of(yield_earned) > U64_MAX THEN Err(s2) ELSE
    unwrap_supply([s2 EXCEPT !.insurance_fund_balance = @ + insurance_cut_of(yield_earned)],
                  yield_earned)

\* ... the credit and the removal of the position, ...
unwrap_credit(s1, sender, pos_idx, position, yield_earned) ==
    IF s1.accounts[sender].lusd_balance + total_return_of(position, yield_earned) > U64_MAX
    THEN Err(s1) ELSE
    unwrap_insurance(
        [s1 EXCEPT !.accounts[sender].lusd_balance = @ + total_return_of(position, yield_earned),
                   !.accounts[sender].yield_positions = remove_at(@, pos_idx)],
        yield_earned)

\* ... the maturity check, ...
unwrap_position(s1, sender, pos_idx, position, ctx) ==
    IF ctx.height < position.maturity_height THEN Err(s1) ELSE
    unwrap_credit(s1, sender, pos_idx, position, yield_earned_on(position, ctx.height))

\* ... and the search of the sender's positions
unwrap_at(s1, sender, pos_idx, ctx) ==
    IF pos_idx = 0 THEN Err(s1) ELSE
    unwrap_position(s1, sender, pos_idx, s1.accounts[sender].yield_positions[pos_idx], ctx)

unwrap_in(s1, sender, token_id, ctx) ==
    unwrap_at(s1, sender, position_of(s1.accounts[sender].yield_positions, token_id), ctx)

UnwrapYieldToken(s, sender, token_id, ctx) == unwrap_in(Entry(s, sender), sender, token_id, ctx)

(* ------------------------ real-world assets ---------------------------- *)
\* An attestation proof is << "rwa", v >>: v tells whether the verifier accepts
\* it for the attested value (an opaque boolean gate).
RwaProof(valid) == << "rwa", valid >>
verify_rwa_attestation(attestation_proof, attested_value) == attestation_proof[2]

RWAListing(owner, asset_description, attestation_proof, attested_value, maturity_date, collateral_eligibility, is_active, pledged_amount) ==
    [ owner |-> owner, asset_description |-> asset_description,
      attestation_proof |-> attestation_proof, attested_value |-> attested_value,
      maturity_date |-> maturity_date, collateral_eligibility |-> collateral_eligibility,
      is_active |-> is_active, pledged_amount |-> pledged_amount ]

\* the variant that gives every listing the id 0
ListRWA_same_id(s, sender, asset_description, attested_value, attestation_proof, maturity_date, collateral_eligibility) ==
    IF asset_description = "" THEN Err(s) ELSE
    IF attested_value = 0 THEN Err(s) ELSE
    IF ~verify_rwa_attestation(attestation_proof, attested_value) THEN Err(s) ELSE
    Ok([s EXCEPT !.rwa_listings =
            (0 :> RWAListing(sender, asset_description, attestation_proof,
                             attested_value, maturity_date,
                             collateral_eligibility, TRUE, 0)) @@ @])

ListRWA(s, sender, asset_description, attested_value, attestation_proof, maturity_date, collateral_eligibility) ==
    IF asset_description = "" THEN Err(s) ELSE
    IF attested_value = 0 THEN Err(s) ELSE
    IF ~verify_rwa_attestation(attestation_proof, attested_value) THEN Err(s) ELSE
    LET rwa_id == s.next_rwa_id IN
    IF rwa_id + 1 > U64_MAX THEN Err(s) ELSE
    Ok([s EXCEPT !.next_rwa_id = rwa_id + 1,
                 !.rwa_listings =
            (rwa_id :> RWAListing(sender, asset_description, attestation_proof,
                                  attested_value, maturity_date,
                                  collateral_eligibility, TRUE, 0)) @@ @])

\* the pledge is recorded on the listing before the LUSD is credited: an
\* overflow of the balance, the supply or the pool leaves what was written
UseRWAAsCollateral(s, sender, rwa_id, amount_to_pledge) ==
    IF amount_to_pledge = 0 THEN Err(s) ELSE
    IF rwa_id \notin DOMAIN s.rwa_listings THEN Err(s) ELSE
    LET listing == s.rwa_listings[rwa_id] IN
    IF ~listing.is_active THEN Err(s) ELSE
    IF ~listing.collateral_eligibility THEN Err(s) ELSE
    LET remaining_capacity == saturating_sub(listing.attested_value, listing.pledged_amount) IN
    IF amount_to_pledge > remaining_capacity THEN Err(s) ELSE
    IF listing.pledged_amount + amount_to_pledge > U64_MAX THEN Err(s) ELSE
    LET s1 == Entry([s EXCEPT !.rwa_listings[rwa_id].pledged_amount = @ + amount_to_pledge],
                    sender)
    IN
    IF s1.accounts[sender].lusd_balance + amount_to_pledge > U64_MAX THEN Err(s1) ELSE
    LET s2 == [s1 EXCEPT !.accounts[sender].lusd_balance = @ + amount_to_pledge] IN
    IF s2.total_lusd_supply + amount_to_pledge > U64_MAX THEN Err(s2) ELSE
    LET s3 == [s2 EXCEPT !.total_lusd_supply = @ + amount_to_pledge] IN
    IF s3.stabilization_pool_balance + amount_to_pledge > U64_MAX THEN Err(s3) ELSE
    Ok(recalculate_ratios([s3 EXCEPT !.stabilization_pool_balance = @ + amount_to_pledge]))

(* ----------------------------- dispatch -------------------------------- *)
\* ctx: [height, timestamp, order]; order is the iteration order of the
\* accounts HashMap during this call
execute_si(si, sender, s, ctx) ==
    CASE si.op = "RegisterAsset" -> RegisterAsset(s, si.ticker, si.decimals)
      [] si.op = "MintSenior" ->
            MintSenior(s, sender, si.amount, si.collateral_amount, si.proof)
      [] si.op = "RedeemSenior" -> RedeemSenior(s, sender, si.amount, ctx.timestamp)
      [] si.op = "MintJunior" -> MintJunior(s, sender, si.amount, si.collateral_amount)
      [] si.op = "RedeemJunior" -> RedeemJunior(s, sender, si.amount)
      [] si.op = "Burn" -> Burn(s, sender, si.amount, si.asset)
      [] si.op = "Transfer" -> Transfer(s, sender, si.to, si.amount, si.asset)
      [] si.op = "RebalanceTranches" -> RebalanceTranches(s, ctx.height)
      [] si.op = "DistributeYield" -> DistributeYield(s, si.total_yield, ctx.order)
      [] si.op = "TriggerStabilizer" -> TriggerStabilizer(s)
      [] si.op = "RunCircuitBreaker" -> RunCircuitBreaker(s, si.active)
      [] si.op = "FairRedeemQueue" -> FairRedeemQueue(s, si.batch_size)
      [] si.op = "UpdateOracle" -> UpdateOracle(s, si.asset, si.price)
      [] si.op = "SubmitZkPoR" ->
            SubmitZkPoR(s, si.proof, si.total_reserves, si.timestamp)
      [] si.op = "InstantFiatBridge" -> InstantFiatBridge(s, sender, si.amount)
      [] si.op = "SwitchToPQSignature" -> SwitchToPQSignature(s, sender, si.new_pq_pubkey)
      [] si.op = "FlashMint" -> FlashMint(s, sender, si.amount, si.collateral_amount)
      [] si.op = "FlashBurn" -> FlashBurn(s, sender, si.amount)
      [] si.op = "InstantRedeem" ->
            InstantRedeem(s, sender, si.amount, si.destination, ctx.timestamp)
      [] si.op = "MintWithCreditScore" ->
            MintWithCreditScore(s, sender, si.amount, si.collateral_amount,
                                si.credit_score_proof, si.min_score_threshold, si.oracle)
      [] si.op = "CreatePasskeyAccount" ->
            CreatePasskeyAccount(s, sender, si.device_key, si.guardians)
      [] si.op = "RecoverSocial" ->
            RecoverSocial(s, sender, si.new_device_key, si.guardian_signatures)
      [] si.op = "ZeroSlipBatchMatch" -> ZeroSlipBatchMatch(s, si.orders)
      [] si.op = "ComputeHealthIndex" -> ComputeHealthIndex(s)
      [] si.op = "ListRWA" ->
            ListRWA(s, sender, si.asset_description, si.attested_value,
                    si.attestation_proof, si.maturity_date, si.collateral_eligibility)
      [] si.op = "UseRWAAsCollateral" ->
            UseRWAAsCollateral(s, sender, si.rwa_id, si.amount_to_pledge)
      [] si.op = "WrapToYieldToken" ->
            WrapToYieldToken(s, sender, si.amount, si.maturity_blocks, ctx)
      [] si.op = "UnwrapYieldToken" -> UnwrapYieldToken(s, sender, si.token_id, ctx)
      [] si.op = "ClaimInsurance" ->
            ClaimInsurance(s, sender, si.loss_proof, si.claimed_amount)

signature_valid(tx, account) ==
    IF account.pq_pubkey # None
    THEN verify_pq_signature(account.pq_pubkey, tx)
    ELSE verify_signature(tx.sender, tx)

\* (variant) a nonce check that also lets a future nonce through
nonce_accepts_future(tx, sender_account) == tx.nonce >= sender_account.nonce

\* (variant) no nonce check at all
nonce_unchecked(tx, sender_account) == TRUE

nonce_matches(tx, sender_account) == tx.nonce = sender_account.nonce

\* Single entry point for any transaction.  The function works on the state
\* in place: what it has written when it bails stays written.
execute_transaction(tx, s, ctx) ==
    LET s1 == Entry(s, tx.sender)
        account == s1.accounts[tx.sender]
    IN  IF ~signature_valid(tx, account) THEN Err(s1)
        ELSE IF ~nonce_matches(tx, account) THEN Err(s1)
        ELSE IF add_overflows(account.nonce, 1) THEN Err(s1)
        ELSE execute_si(tx.instruction, tx.sender,
                        [s1 EXCEPT !.accounts[tx.sender].nonce = @ + 1], ctx)

(* ------------------------------- blocks -------------------------------- *)
\* Transaction::id: blake3 over the signing bytes and the signature,
\* collision free: the transaction itself
id(tx) == << "TxId", tx >>

hash_concat(left, right) == << "H", left, right >>

RECURSIVE merkle_reduce(_)
merkle_reduce(level) ==
    IF Len(level) = 1 THEN level[1]
    ELSE merkle_reduce(
            [i \in 1 .. ((Len(level) + 1) \div 2) |->
                hash_concat(level[2 * i - 1],
                            IF 2 * i <= Len(level) THEN level[2 * i] ELSE level[2 * i - 1])])

transactions_root(txs) ==
    IF txs = << >> THEN ZERO_ROOT
    ELSE merkle_reduce([i \in 1 .. Len(txs) |-> id(txs[i])])

\* Block::hash: blake3 over the serialized header, collision free: the
\* header itself.  [0u8; 32] is the hash no header has.
Block_hash(block) == block.header
ZERO_HASH == [zero |-> TRUE]

\* The byte order of two block hashes is a function of nothing the model
\* keeps: the place of a block's hash in that order (ranks) is drawn when the
\* hash is first compared.  [0u8; 32] is the least hash.
rank_of(ranks, hash) == IF hash \in DOMAIN ranks THEN ranks[hash] ELSE 0
hash_gt(ranks, a, b) == rank_of(ranks, a) > rank_of(ranks, b)

(* ------------------------------- storage ------------------------------- *)
NoEntries == [k \in {} |-> << >>]
Insert(map, k, v) == (k :> v) @@ map
Get(map, k) == IF k \in DOMAIN map THEN Some(map[k]) ELSE None

MemDb_default ==
    [ global_state |-> None, canonical_hash_by_height |-> NoEntries,
      blocks_by_hash |-> NoEntries, states_by_height |-> NoEntries,
      states_by_hash |-> NoEntries, block_meta |-> NoEntries, tip |-> None ]

save_state(d, st) == [d EXCEPT !.global_state = Some(st)]
save_state_at_height(d, h, st) == [d EXCEPT !.states_by_height = Insert(@, h, st)]
load_state_by_height(d, h) == Get(d.states_by_height, h)
save_state_by_hash(d, block_hash, st) == [d EXCEPT !.states_by_hash = Insert(@, block_hash, st)]
load_state_by_hash(d, block_hash) == Get(d.states_by_hash, block_hash)
save_block(d, block) == [d EXCEPT !.blocks_by_hash = Insert(@, Block_hash(block), block)]
save_canonical_block_at_height(d, h, block_hash) ==
    [d EXCEPT !.canonical_hash_by_height = Insert(@, h, block_hash)]
save_block_meta(d, block_hash, h, parent_hash) ==
    [d EXCEPT !.block_meta = Insert(@, block_hash, << h, parent_hash >>)]
load_block_meta(d, block_hash) == Get(d.block_meta, block_hash)
save_tip(d, h, block_hash) == [d EXCEPT !.tip = Some(<< h, block_hash >>)]
load_tip(d) == d.tip

(* ------------------------------ consensus ------------------------------ *)
BlockCtx(header) ==
    [height |-> header.height, timestamp |-> header.timestamp, order |-> << 0, 1, 16 >>]

\* for tx in &block.transactions { execute_transaction(tx, &mut ctx)?; }
RECURSIVE execute_all(_, _, _)
execute_all(txs, s, ctx) ==
    IF txs = << >> THEN Ok(s)
    ELSE LET r == execute_transaction(Head(txs), s, ctx)
         IN  IF r.ok THEN execute_all(Tail(txs), r.st, ctx) ELSE r

\* the loop of build_block_from_parent: a failing transaction is logged and
\* left out; the state it was executed on goes on to the next one
RECURSIVE collect_valid(_, _, _, _)
collect_valid(txs, s, ctx, valid_txs) ==
    IF txs = << >> THEN [valid_txs |-> valid_txs, st |-> s]
    ELSE LET r == execute_transaction(Head(txs), s, ctx)
         IN  collect_valid(Tail(txs), r.st, ctx,
                           IF r.ok THEN Append(valid_txs, Head(txs)) ELSE valid_txs)

build_block_from_parent(parent_state, txs, h, prev_hash, timestamp) ==
    LET ctx == [height |-> h, timestamp |-> timestamp, order |-> << 0, 1, 16 >>]
        c == collect_valid(txs, parent_state, ctx, << >>)
    IN  IF c.valid_txs = << >> THEN [ok |-> FALSE]
        ELSE [ok |-> TRUE,
              block |-> [header |-> [height |-> h, prev_hash |-> prev_hash,
                                     transactions_root |-> transactions_root(c.valid_txs),
                                     state_root |-> root_hash(c.st),
                                     timestamp |-> timestamp, proposer |-> ZERO_ADDR],
                         transactions |-> c.valid_txs]]

Invalid(err) == [ok |-> FALSE, err |-> err]

\* import_block_and_maybe_reorg up to the state-root check: what the block
\* is rejected for, or the state its transactions lead to
validate_block(d, block) ==
    LET header == block.header
        parent_hash == header.prev_hash
    IN
    IF header.height = 0 THEN Invalid("Invalid block height 0") ELSE
    IF header.height > 1 /\ load_block_meta(d, parent_hash) = None
    THEN Invalid("Unknown parent block") ELSE
    IF header.transactions_root # transactions_root(block.transactions)
    THEN Invalid("Invalid transactions_root") ELSE
    LET loaded == IF header.height = 1
                  THEN LET g == load_state_by_height(d, 0)
                       IN  IF g = None THEN Some(GlobalState_default) ELSE g
                  ELSE load_state_by_hash(d, parent_hash)
    IN
    IF loaded = None THEN Invalid("Missing parent state (by hash)") ELSE
    LET r == execute_all(block.transactions, loaded[1], BlockCtx(header)) IN
    IF ~r.ok THEN Invalid("transaction failed") ELSE
    IF header.state_root # root_hash(r.st) THEN Invalid("Invalid state_root") ELSE
    [ok |-> TRUE, next_state |-> r.st]

\* (variant) a tie between equal heights that goes to the smaller hash
better_smaller_hash(ranks, h, block_hash, cur_tip_h, cur_tip_hash) ==
    (h > cur_tip_h) \/ (h = cur_tip_h /\ hash_gt(ranks, cur_tip_hash, block_hash))

better(ranks, h, block_hash, cur_tip_h, cur_tip_hash) ==
    (h > cur_tip_h) \/ (h = cur_tip_h /\ hash_gt(ranks, block_hash, cur_tip_hash))

\* the walk back from the new tip: (height, hash) pairs, tip first; it stops
\* at the first block whose recorded height is <= 1, or with << >> at a hash
\* that has no block-meta
RECURSIVE walk_back(_, _)
walk_back(d, cursor_hash) ==
    LET m == load_block_meta(d, cursor_hash) IN
    IF m = None THEN << << >> >>
    ELSE IF m[1][1] <= 1 THEN << << m[1][1], cursor_hash >> >>
    ELSE << << m[1][1], cursor_hash >> >> \o walk_back(d, m[1][2])

Reverse(seq) == [i \in 1 .. Len(seq) |-> seq[Len(seq) + 1 - i]]

\* the second loop of reorg_to_tip, over the chain from the oldest block on
RECURSIVE rewrite_canonical(_, _)
rewrite_canonical(d, chain) ==
    IF chain = << >> THEN [ok |-> TRUE, db |-> d]
    ELSE LET h == chain[1][1]
             hash == chain[1][2]
             d1 == save_canonical_block_at_height(d, h, hash)
             st == load_state_by_hash(d1, hash)
         IN  IF st = None THEN [ok |-> FALSE, db |-> d1]
             ELSE rewrite_canonical(save_state_at_height(d1, h, st[1]), Tail(chain))

reorg_to_tip(d, st, new_tip_hash, new_tip_height) ==
    LET chain == walk_back(d, new_tip_hash) IN
    IF chain[Len(chain)] = << >> THEN [ok |-> FALSE, db |-> d, state |-> st] ELSE
    LET w == rewrite_canonical(d, Reverse(chain)) IN
    IF ~w.ok THEN [ok |-> FALSE, db |-> w.db, state |-> st] ELSE
    LET tip_state == load_state_by_hash(w.db, new_tip_hash) IN
    IF tip_state = None THEN [ok |-> FALSE, db |-> w.db, state |-> st] ELSE
    [ok |-> TRUE,
     db |-> save_tip(save_state(w.db, tip_state[1]), new_tip_height, new_tip_hash),
     state |-> tip_state[1]]

Imported(res, d, st) == [res |-> res, db |-> d, state |-> st]

\* "Persist fork block" and what follows
persist_and_choose(d, st, block, block_hash, ranks, v) ==
    LET header == block.header
        d1 == save_state_by_hash(
                 save_block_meta(save_block(d, block), block_hash, header.height,
                                 header.prev_hash),
                 block_hash, v.next_state)
        tip == IF load_tip(d1) = None THEN << 0, ZERO_HASH >> ELSE load_tip(d1)[1]
    IN  IF ~better(ranks, header.height, block_hash, tip[1], tip[2])
        THEN Imported("no_reorg", d1, st)
        ELSE LET r == reorg_to_tip(d1, st, block_hash, header.height)
             IN  Imported(IF r.ok THEN "reorg" ELSE "err", r.db, r.state)

\* (variant) the fork block is written before the verdict on it is looked at
finish_import_persist_first(d, st, block, block_hash, ranks, v) ==
    IF v.ok THEN persist_and_choose(d, st, block, block_hash, ranks, v)
    ELSE Imported("err", save_block_meta(save_block(d, block), block_hash,
                                         block.header.height, block.header.prev_hash), st)

\* every bail! and ? of the checks returns before anything is written
finish_import(d, st, block, block_hash, ranks, v) ==
    IF v.ok THEN persist_and_choose(d, st, block, block_hash, ranks, v)
    ELSE Imported("err", d, st)

\* (variant) a known block reported as a reorg
import_known_reorgs(d, st) == Imported("reorg", d, st)

\* Fast-path: already imported
import_known(d, st) == Imported("no_reorg", d, st)

import_block_and_maybe_reorg(d, st, block, ranks) ==
    LET block_hash == Block_hash(block) IN
    IF load_block_meta(d, block_hash) # None THEN import_known(d, st)
    ELSE finish_import(d, st, block, block_hash, ranks, validate_block(d, block))

(* ============================ state machines =========================== *)
VARIABLES
    gs,               \* ExecutionContext.state: the GlobalState being executed on
    gs2,              \* an independent copy of it, given the same calls
    height,           \* ExecutionContext.height (the timestamp is derived from it)
    last,             \* history: the last call on gs / gs2 and its outcomes
    ops,              \* number of calls so far
    db,               \* Storage (MemDb)
    state,            \* ConsensusService.state: the in-memory current GlobalState
    current_height,   \* run(): local current_height
    last_block_hash,  \* run(): local last_block_hash
    mempool,          \* ConsensusService.mempool
    seen_blocks,      \* ConsensusService.seen_blocks
    hash_rank,        \* the place of each imported block's hash in the byte order
    lastImport,       \* history: the last block import and its outcome
    inflight,         \* LuminaApp.inflight: the block begun and not yet committed
    wal,              \* the file at LuminaApp.wal_path (None: no file)
    pending           \* the writes the import in progress has still to make

vars == << gs, gs2, height, last, ops, db, state, current_height, last_block_hash,
           mempool, seen_blocks, hash_rank, lastImport, inflight, wal, pending >>
appVars == << inflight, wal, pending >>
execVars == << gs, gs2, height, last, ops >>
chainVars == << db, state, current_height, last_block_hash, mempool, seen_blocks,
                hash_rank, lastImport >>

(* ------------------------- the execution machine ----------------------- *)
Tx(sender, nonce, signature, instruction) ==
    [sender |-> sender, nonce |-> nonce, signature |-> signature,
     instruction |-> instruction]

stored_nonce(s, a) == IF a \in DOMAIN s.accounts THEN s.accounts[a].nonce ELSE 0

\* the signature an honest client of account a produces in state s
honest_signature(s, a) ==
    IF a \in DOMAIN s.accounts /\ s.accounts[a].pq_pubkey # None
    THEN "dilithium" ELSE "ed25519"

\* instructions offered to the deployer account
InstrsA ==
    { [op |-> "MintSenior", amount |-> 20, collateral_amount |-> c, proof |-> PoR(c)]
        : c \in {10, 20} }
    \cup { [op |-> "MintSenior", amount |-> 20, collateral_amount |-> 20, proof |-> JunkProof],
           [op |-> "MintJunior", amount |-> 1, collateral_amount |-> 1],
           [op |-> "Transfer", to |-> 16, amount |-> 1, asset |-> "Lumina"],
           [op |-> "Transfer", to |-> 1, amount |-> 5, asset |-> "LUSD"],
           [op |-> "RunCircuitBreaker", active |-> TRUE],
           [op |-> "RunCircuitBreaker", active |-> FALSE],
           [op |-> "DistributeYield", total_yield |-> 5],
           [op |-> "RedeemSenior", amount |-> 5],
           [op |-> "Burn", amount |-> 5, asset |-> "LUSD"],
           [op |-> "RegisterAsset", ticker |-> "X", decimals |-> 6],
           [op |-> "TriggerStabilizer"],
           [op |-> "FairRedeemQueue", batch_size |-> 1],
           [op |-> "SwitchToPQSignature", new_pq_pubkey |-> << 1 >>] }

\* instructions offered to a second account
InstrsB ==
    { [op |-> "MintJunior", amount |-> 3, collateral_amount |-> 3],
      [op |-> "Transfer", to |-> 0, amount |-> 1, asset |-> "LUSD"],
      [op |-> "RunCircuitBreaker", active |-> FALSE] }

\* the transactions the environment may submit in state s: well-formed ones
\* of accounts 0x00 and 0x01, and ill-formed ones (wrong nonce, wrong or
\* forged signature)
ExecTxs(s) ==
    { Tx(0, stored_nonce(s, 0), honest_signature(s, 0), i) : i \in InstrsA }
    \cup { Tx(1, stored_nonce(s, 1), honest_signature(s, 1), i) : i \in InstrsB }
    \cup { Tx(0, stored_nonce(s, 0) + 1, honest_signature(s, 0),
              [op |-> "RunCircuitBreaker", active |-> TRUE]),
           Tx(0, stored_nonce(s, 0), "dilithium", [op |-> "TriggerStabilizer"]),
           Tx(16, 0, "bad", [op |-> "RegisterAsset", ticker |-> "X", decimals |-> 6]) }

Orders == { << 0, 1, 16 >>, << 0, 16, 1 >>, << 1, 0, 16 >>,
            << 1, 16, 0 >>, << 16, 0, 1 >>, << 16, 1, 0 >> }

Ctx(h, order) == [height |-> h, timestamp |-> h, order |-> order]

NoImport == [kind |-> "none"]

InitChainIdle ==
    /\ db = << >>
    /\ state = << >>
    /\ current_height = 0
    /\ last_block_hash = ZERO_HASH
    /\ mempool = << >>
    /\ seen_blocks = {}
    /\ hash_rank = << >>
    /\ lastImport = NoImport
    /\ inflight = None
    /\ wal = None
    /\ pending = << >>

InitExec ==
    /\ gs \in {GlobalState_default, create_genesis_state}
    /\ gs2 = gs
    /\ height = 1
    /\ last = [kind |-> "init"]
    /\ ops = 0
    /\ InitChainIdle

\* execute_transaction(tx, ctx) on gs, and the same call on the copy
ExecTx ==
    /\ ops < MaxOps
    /\ \E tx \in ExecTxs(gs) :
       \E o1 \in Orders, o2 \in Orders :
          \* the iteration order matters to DistributeYield only
          /\ (tx.instruction.op # "DistributeYield" => o1 = << 0, 1, 16 >> /\ o2 = o1)
          /\ LET r1 == execute_transaction(tx, gs, Ctx(height, o1))
                 r2 == execute_transaction(tx, gs2, Ctx(height, o2))
             IN  /\ gs' = r1.st
                 /\ gs2' = r2.st
                 /\ last' = [kind |-> "tx", tx |-> tx, ok |-> r1.ok, ok2 |-> r2.ok,
                             reordered |-> accounts_snapshot(gs, o1) # accounts_snapshot(gs2, o2)]
    /\ ops' = ops + 1
    /\ UNCHANGED << height, chainVars, appVars >>

\* end_block(ctx), then the next block begins
EndBlock ==
    /\ ops < MaxOps
    /\ gs' = end_block(gs)
    /\ gs2' = end_block(gs2)
    /\ height' = height + 1
    /\ last' = [kind |-> "end_block"]
    /\ ops' = ops + 1
    /\ UNCHANGED << chainVars, appVars >>

NextExec == ExecTx \/ EndBlock

SpecExec == InitExec /\ [][NextExec]_vars

(* --------------------- signed transactions, replayed ------------------- *)
\* A fixed set of signed transactions that the environment submits again and
\* again in any order.  The genesis states: the default one, and one in which
\* the deployer's nonce is at its maximum.
MaxReplayOps == 4
GenesisLastNonce == [create_genesis_state EXCEPT !.accounts[ZERO_ADDR].nonce = U64_MAX]

ReplayTxs ==
    { Tx(a, n, sig, i)
        : a \in {0, 1}, n \in {0, 1, U64_MAX}, sig \in {"ed25519", "dilithium"},
          i \in { [op |-> "Transfer", to |-> 16, amount |-> 1, asset |-> "Lumina"],
                  [op |-> "SwitchToPQSignature", new_pq_pubkey |-> << 1 >>],
                  [op |-> "Burn", amount |-> 5, asset |-> "LUSD"] } }

InitReplay ==
    /\ gs \in {create_genesis_state, GenesisLastNonce}
    /\ gs2 = << >>
    /\ height = 1
    /\ last = [kind |-> "init", accepted |-> {}]
    /\ ops = 0
    /\ InitChainIdle

\* history: the transactions accepted so far
ReplayTx ==
    /\ ops < MaxReplayOps
    /\ \E tx \in ReplayTxs :
       \E r \in { execute_transaction(tx, gs, Ctx(height, << 0, 1, 16 >>)) } :
          /\ gs' = r.st
          /\ last' = [kind |-> "tx", tx |-> tx, ok |-> r.ok,
                      accepted |-> IF r.ok THEN last.accepted \cup {tx} ELSE last.accepted]
    /\ ops' = ops + 1
    /\ UNCHANGED << gs2, height, chainVars, appVars >>

ReplayEndBlock ==
    /\ ops < MaxReplayOps
    /\ gs' = end_block(gs)
    /\ height' = height + 1
    /\ last' = [kind |-> "end_block", accepted |-> last.accepted]
    /\ ops' = ops + 1
    /\ UNCHANGED << gs2, chainVars, appVars >>

SpecReplay == InitReplay /\ [][ReplayTx \/ ReplayEndBlock]_vars

(* ------------------- the batch executor with pre-check ------------------ *)
non_conflicting_transfer(tx) ==
    IF tx.instruction.op = "Transfer" THEN Some(<< tx.sender, tx.instruction.to >>)
    ELSE None

\* the indices of the transfers whose sender and recipient no earlier
\* candidate touches
RECURSIVE parallel_candidates(_, _, _, _)
parallel_candidates(txs, idx, touched, candidates) ==
    IF idx > Len(txs) THEN candidates
    ELSE LET pair == non_conflicting_transfer(txs[idx])
         IN  IF pair # None /\ pair[1][1] \notin touched /\ pair[1][2] \notin touched
             THEN parallel_candidates(txs, idx + 1,
                                      touched \cup {pair[1][1], pair[1][2]},
                                      candidates \cup {idx})
             ELSE parallel_candidates(txs, idx + 1, touched, candidates)

\* the check of one candidate, against the state before the batch
pre_check(tx, s) ==
    LET account == IF tx.sender \in DOMAIN s.accounts THEN s.accounts[tx.sender]
                   ELSE AccountState_default
    IN  signature_valid(tx, account) /\ account.nonce = tx.nonce

execute_transactions_parallel_non_conflicting(txs, s, ctx) ==
    IF \E idx \in parallel_candidates(txs, 1, {}, {}) : ~pre_check(txs[idx], s)
    THEN Err(s)
    ELSE execute_all(txs, s, ctx)

(* --------------------------- the node machine -------------------------- *)
MaxHeight == 3
MaxBlocks == 2
MaxMempool == 2
MaxSeen == 2

InitExecIdle ==
    /\ gs = << >>
    /\ gs2 = << >>
    /\ height = 0
    /\ last = [kind |-> "init"]
    /\ ops = 0

\* lumina-node main on an empty data directory, then the start of run()
InitChain ==
    /\ db = save_tip(save_state_at_height(save_state(MemDb_default, create_genesis_state),
                                          0, create_genesis_state),
                     0, ZERO_HASH)
    /\ state = create_genesis_state
    /\ current_height = 0
    /\ last_block_hash = ZERO_HASH
    /\ mempool = << >>
    /\ seen_blocks = {}
    /\ hash_rank = NoEntries
    /\ lastImport = NoImport
    /\ inflight = None
    /\ wal = None
    /\ pending = << >>
    /\ InitExecIdle

\* the transactions clients send: a transfer by the deployer, and a
\* transaction of an account that does not exist yet, with a forged signature
tA == Tx(0, 0, "ed25519", [op |-> "Transfer", to |-> 1, amount |-> 1, asset |-> "Lumina"])
tForged == Tx(16, 0, "bad", [op |-> "RegisterAsset", ticker |-> "X", decimals |-> 6])
ChainTxs == {tA, tForged}

CORRUPT_ROOT == << "Corrupt" >>

\* the wall clock of a proposer, as a function of the height it proposes at
BlockTime(h) == h

NetHeader(h, prev_hash, txs_root, st_root) ==
    [height |-> h, prev_hash |-> prev_hash, transactions_root |-> txs_root,
     state_root |-> st_root, timestamp |-> BlockTime(h), proposer |-> ZERO_ADDR]

\* the state root a peer that executed the block would put in the header
\* (any root, where the block cannot be executed)
peer_state_root(d, h, prev_hash, txs) ==
    LET probe == [header |-> NetHeader(h, prev_hash, transactions_root(txs), ZERO_ROOT),
                  transactions |-> txs]
        loaded == IF h = 1
                  THEN LET g == load_state_by_height(d, 0)
                       IN  IF g = None THEN Some(GlobalState_default) ELSE g
                  ELSE load_state_by_hash(d, prev_hash)
    IN  IF loaded = None THEN ZERO_ROOT
        ELSE root_hash(execute_all(txs, loaded[1], BlockCtx(probe.header)).st)

\* the blocks peers may send: any height, any known hash or [0u8; 32] as
\* parent, with the roots a peer would compute; a block of height 0; and two
\* blocks with one root corrupted
NetBlocks(d) ==
    { [header |-> NetHeader(h, prev, transactions_root(txs), peer_state_root(d, h, prev, txs)),
       transactions |-> txs]
        : h \in 1 .. MaxHeight, prev \in {ZERO_HASH} \cup DOMAIN d.block_meta,
          txs \in {<< >>, << tA >>} }
    \cup { [header |-> NetHeader(0, ZERO_HASH, transactions_root(<< >>),
                                 peer_state_root(d, 1, ZERO_HASH, << >>)),
            transactions |-> << >>],
           [header |-> NetHeader(1, ZERO_HASH, CORRUPT_ROOT,
                                 peer_state_root(d, 1, ZERO_HASH, << >>)),
            transactions |-> << >>],
           [header |-> NetHeader(1, ZERO_HASH, transactions_root(<< >>), CORRUPT_ROOT),
            transactions |-> << >>] }

\* the ranks after the hash of a block that passed the checks was compared
\* for the first time
RanksWithin(ranks, d, block, n) ==
    IF load_block_meta(d, Block_hash(block)) = None /\ validate_block(d, block).ok
    THEN { Insert(ranks, Block_hash(block), r) :
             r \in (1 .. n) \ {ranks[b] : b \in DOMAIN ranks} }
    ELSE { ranks }

RanksAfter(ranks, d, block) == RanksWithin(ranks, d, block, MaxBlocks)

ImportRecord(kind, d, block, r) ==
    [kind |-> kind, res |-> r.res, block |-> block,
     known |-> load_block_meta(d, Block_hash(block)) # None,
     err |-> IF r.res = "err" THEN validate_block(d, block).err ELSE ""]

\* Some(tx) = self.tx_rx.recv()
RecvTx ==
    /\ Len(mempool) < MaxMempool
    /\ \E tx \in ChainTxs : mempool' = Append(mempool, tx)
    /\ lastImport' = NoImport
    /\ UNCHANGED << db, state, current_height, last_block_hash, seen_blocks, hash_rank,
                    execVars, appVars >>

\* Some(block) = self.block_rx.recv()
RecvBlock ==
    \E block \in NetBlocks(db) :
       LET bh == Block_hash(block) IN
       /\ bh \in seen_blocks \/ Cardinality(seen_blocks) < MaxSeen
       /\ seen_blocks' = seen_blocks \cup {bh}
       /\ IF bh \in seen_blocks
          THEN /\ lastImport' = [kind |-> "seen"]
               /\ UNCHANGED << db, state, current_height, last_block_hash, hash_rank >>
          ELSE \E ranks \in RanksAfter(hash_rank, db, block) :
                  \E r \in {import_block_and_maybe_reorg(db, state, block, ranks)} :
                  /\ hash_rank' = ranks
                  /\ db' = r.db
                  /\ state' = r.state
                  /\ lastImport' = ImportRecord("net", db, block, r)
                  /\ IF r.res = "reorg" /\ load_tip(r.db) # None
                     THEN /\ current_height' = load_tip(r.db)[1][1]
                          /\ last_block_hash' = load_tip(r.db)[1][2]
                     ELSE UNCHANGED << current_height, last_block_hash >>
       /\ UNCHANGED << mempool, execVars, appVars >>

\* interval.tick(): propose a block on the current tip and import it
Tick ==
    /\ mempool # << >>
    /\ mempool' = << >>
    /\ LET h == current_height + 1
           parent_state == load_state_by_height(db, current_height)
       IN  \E b \in { IF parent_state = None THEN [ok |-> FALSE]
                      ELSE build_block_from_parent(parent_state[1], mempool, h,
                                                   last_block_hash, BlockTime(h)) } :
           IF ~b.ok
           THEN /\ lastImport' = [kind |-> "no_block"]
                /\ UNCHANGED << db, state, current_height, last_block_hash, hash_rank >>
           ELSE \E ranks \in RanksAfter(hash_rank, db, b.block) :
                   \E r \in {import_block_and_maybe_reorg(db, state, b.block, ranks)} :
                   /\ hash_rank' = ranks
                   /\ db' = r.db
                   /\ state' = r.state
                   /\ lastImport' = [ImportRecord("tick", db, b.block, r)
                                        EXCEPT !.kind = "tick"] @@ [parent |-> parent_state[1]]
                   /\ IF r.res = "reorg"
                      THEN /\ current_height' = b.block.header.height
                           /\ last_block_hash' = Block_hash(b.block)
                      ELSE UNCHANGED << current_height, last_block_hash >>
    /\ UNCHANGED << seen_blocks, execVars, appVars >>

NextChain == RecvTx \/ RecvBlock \/ Tick

SpecChain == InitChain /\ [][NextChain]_vars

(* ------------------- blocks delivered out of order --------------------- *)
\* Two blocks of a peer: BlockA on genesis and BlockB on BlockA, each with
\* the roots the peer computed.  The network delivers them in any order, any
\* number of times, while the node also receives transactions and proposes.
MaxDeliveryBlocks == 4
GenesisDb ==
    save_tip(save_state_at_height(save_state(MemDb_default, create_genesis_state),
                                  0, create_genesis_state),
             0, ZERO_HASH)
BlockA ==
    [header |-> NetHeader(1, ZERO_HASH, transactions_root(<< tA >>),
                          peer_state_root(GenesisDb, 1, ZERO_HASH, << tA >>)),
     transactions |-> << tA >>]
PeerDb ==
    import_block_and_maybe_reorg(GenesisDb, create_genesis_state, BlockA,
                                 Insert(NoEntries, Block_hash(BlockA), 1)).db
BlockB ==
    [header |-> NetHeader(2, Block_hash(BlockA), transactions_root(<< >>),
                          peer_state_root(PeerDb, 2, Block_hash(BlockA), << >>)),
     transactions |-> << >>]
DeliveryBlocks == {BlockA, BlockB}

\* Some(block) = self.block_rx.recv() with this block
Deliver(block) ==
    LET bh == Block_hash(block) IN
    /\ seen_blocks' = seen_blocks \cup {bh}
    /\ IF bh \in seen_blocks
       THEN /\ lastImport' = [kind |-> "seen", block |-> block]
            /\ UNCHANGED << db, state, current_height, last_block_hash, hash_rank >>
       ELSE \E ranks \in RanksWithin(hash_rank, db, block, MaxDeliveryBlocks) :
               \E r \in {import_block_and_maybe_reorg(db, state, block, ranks)} :
               /\ hash_rank' = ranks
               /\ db' = r.db
               /\ state' = r.state
               /\ lastImport' = ImportRecord("net", db, block, r)
               /\ IF r.res = "reorg" /\ load_tip(r.db) # None
                  THEN /\ current_height' = load_tip(r.db)[1][1]
                       /\ last_block_hash' = load_tip(r.db)[1][2]
                  ELSE UNCHANGED << current_height, last_block_hash >>
    /\ UNCHANGED << mempool, pending, execVars, inflight, wal >>

DeliverSome == \E block \in DeliveryBlocks : Deliver(block)

SpecDelivery == InitChain /\ [][RecvTx \/ Tick \/ DeliverSome]_vars

\* the last receive of run() was a delivery of this block
delivered(block) ==
    /\ lastImport.kind \in {"seen", "net"}
    /\ lastImport.block = block


(* ------------------- the node: consensus and the API ------------------- *)
\* The API server holds the same Arc<RwLock<GlobalState>> as the consensus
\* service.  Its handlers take the read lock, except faucet, which takes the
\* write lock.  The amount is 10_000 in the source, scaled to the model's u64.
FaucetAmount == 10
MaxFaucetCalls == 1

\* POST /faucet with a well-formed address (Some(key)) or a malformed one
faucet(s, address) ==
    IF address = None THEN s
    ELSE LET key == address[1] IN
         [Entry(s, key) EXCEPT
            !.accounts[key].lusd_balance = saturating_add(@, FaucetAmount),
            !.total_lusd_supply = saturating_add(@, FaucetAmount)]

Faucet ==
    /\ ops < MaxFaucetCalls
    /\ \E address \in {None, Some(1)} : state' = faucet(state, address)
    /\ ops' = ops + 1
    /\ lastImport' = [kind |-> "faucet"]
    /\ UNCHANGED << db, current_height, last_block_hash, mempool, seen_blocks, hash_rank,
                    gs, gs2, height, last, appVars >>

SpecNode == InitChain /\ [][NextChain \/ Faucet]_vars

(* ----------------- the import of a block, write by write --------------- *)
\* Storage writes are single puts: between two of them the API handlers read
\* the storage and the shared state, and any of them may return an error,
\* which the ? of the caller turns into the return of the import.  `pending`
\* holds the writes the import in progress has still to make, in order, and
\* its return.
MaxReorgSeen == 3
MaxReorgHeight == 2
MaxWriteFaults == 1

Write(op, h, hash, st, block) == [op |-> op, h |-> h, hash |-> hash, st |-> st, block |-> block]
Return(res) == Write(res, 0, ZERO_HASH, None, None)
returns(w) == w.op \in {"reorg", "no_reorg", "err"}

apply_write(d, w) ==
    CASE w.op = "save_block" -> save_block(d, w.block[1])
      [] w.op = "save_block_meta" -> save_block_meta(d, w.hash, w.h, w.block[1].header.prev_hash)
      [] w.op = "save_state_by_hash" -> save_state_by_hash(d, w.hash, w.st[1])
      [] w.op = "save_canonical_block_at_height" -> save_canonical_block_at_height(d, w.h, w.hash)
      [] w.op = "save_state_at_height" -> save_state_at_height(d, w.h, w.st[1])
      [] w.op = "save_state" -> save_state(d, w.st[1])
      [] w.op = "save_tip" -> save_tip(d, w.h, w.hash)
      [] OTHER -> d

\* the second loop of reorg_to_tip as the writes it makes; a missing state
\* ends it with an error
RECURSIVE canonical_writes(_, _)
canonical_writes(d, chain) ==
    IF chain = << >> THEN << >>
    ELSE LET h == chain[1][1]
             hash == chain[1][2]
             st == load_state_by_hash(d, hash)
         IN  << Write("save_canonical_block_at_height", h, hash, None, None) >>
             \o IF st = None THEN << Return("err") >>
                ELSE << Write("save_state_at_height", h, hash, st, None) >>
                     \o canonical_writes(d, Tail(chain))

reorg_writes(d, new_tip_hash, new_tip_height) ==
    LET chain == walk_back(d, new_tip_hash) IN
    IF chain[Len(chain)] = << >> THEN << Return("err") >> ELSE
    LET ws == canonical_writes(d, Reverse(chain))
        tip_state == load_state_by_hash(d, new_tip_hash)
    IN  IF ws # << >> /\ returns(ws[Len(ws)]) THEN ws
        ELSE IF tip_state = None THEN ws \o << Return("err") >>
        ELSE ws \o << Write("save_state", new_tip_height, new_tip_hash, tip_state, None),
                      Write("save_tip", new_tip_height, new_tip_hash, None, None),
                      Write("write_state", new_tip_height, new_tip_hash, tip_state, None),
                      Return("reorg") >>

\* "Persist fork block" and what follows, as writes
persist_writes(d, block, block_hash, ranks, v) ==
    LET header == block.header
        persist == << Write("save_block", header.height, block_hash, None, Some(block)),
                      Write("save_block_meta", header.height, block_hash, None, Some(block)),
                      Write("save_state_by_hash", header.height, block_hash,
                            Some(v.next_state), None) >>
        d1 == apply_write(apply_write(apply_write(d, persist[1]), persist[2]), persist[3])
        tip == IF load_tip(d1) = None THEN << 0, ZERO_HASH >> ELSE load_tip(d1)[1]
    IN  IF ~better(ranks, header.height, block_hash, tip[1], tip[2])
        THEN persist \o << Return("no_reorg") >>
        ELSE persist \o reorg_writes(d1, block_hash, header.height)

import_writes(d, block, ranks) ==
    LET block_hash == Block_hash(block) IN
    IF load_block_meta(d, block_hash) # None THEN << Return("no_reorg") >>
    ELSE \* bound once: the checks of the block
         LET v == validate_block(d, block) IN
         IF v.ok THEN persist_writes(d, block, block_hash, ranks, v)
         ELSE << Return("err") >>

\* what a reader of the storage and of the shared state sees
View(d, st) ==
    [canonical |-> d.canonical_hash_by_height, states_by_height |-> d.states_by_height,
     global_state |-> d.global_state, tip |-> d.tip, state |-> st]

\* the blocks peers send: empty blocks and blocks with one transfer, of
\* height 1 on [0u8; 32] and of any height above on any known block
ReorgBlocks(d) ==
    UNION { { [header |-> NetHeader(h, prev, transactions_root(txs),
                                    peer_state_root(d, h, prev, txs)),
               transactions |-> txs]
                : prev \in IF h = 1 THEN {ZERO_HASH} ELSE DOMAIN d.block_meta,
                  txs \in {<< >>, << tA >>} }
            : h \in 1 .. MaxReorgHeight }

\* Some(block) = self.block_rx.recv(), up to the first write of the import
ImportStart ==
    /\ pending = << >>
    /\ \E block \in ReorgBlocks(db) :
       LET bh == Block_hash(block) IN
       /\ bh \in seen_blocks \/ Cardinality(seen_blocks) < MaxReorgSeen
       /\ seen_blocks' = seen_blocks \cup {bh}
       /\ IF bh \in seen_blocks
          THEN /\ lastImport' = [kind |-> "seen", block |-> block, before |-> View(db, state),
                                 after |-> View(db, state)]
               /\ UNCHANGED << hash_rank, pending >>
          ELSE \E ranks \in RanksWithin(hash_rank, db, block, MaxReorgSeen) :
               \E r \in { import_block_and_maybe_reorg(db, state, block, ranks) } :
                  /\ hash_rank' = ranks
                  /\ pending' = import_writes(db, block, ranks)
                  /\ lastImport' = [kind |-> "start", block |-> block,
                                    before |-> View(db, state),
                                    after |-> View(r.db, r.state)]
    /\ UNCHANGED << db, state, current_height, last_block_hash, mempool, execVars,
                    inflight, wal >>

\* the next write of the import succeeds; at its return run() reads the tip
ImportStep ==
    /\ pending # << >>
    /\ LET w == Head(pending) IN
       /\ db' = apply_write(db, w)
       /\ state' = IF w.op = "write_state" THEN w.st[1] ELSE state
       /\ IF w.op = "reorg" /\ load_tip(db) # None
          THEN /\ current_height' = load_tip(db)[1][1]
               /\ last_block_hash' = load_tip(db)[1][2]
          ELSE UNCHANGED << current_height, last_block_hash >>
       /\ lastImport' = [lastImport EXCEPT !.kind = IF returns(w) THEN w.op ELSE "step"]
    /\ pending' = Tail(pending)
    /\ UNCHANGED << mempool, seen_blocks, hash_rank, execVars, inflight, wal >>

\* the next storage write of the import returns an error
ImportWriteFails ==
    /\ pending # << >>
    /\ Head(pending).op \notin {"write_state", "reorg", "no_reorg", "err"}
    /\ ops < MaxWriteFaults
    /\ ops' = ops + 1
    /\ pending' = << >>
    /\ lastImport' = [lastImport EXCEPT !.kind = "failed"]
    /\ UNCHANGED << db, state, current_height, last_block_hash, mempool, seen_blocks,
                    hash_rank, gs, gs2, height, last, inflight, wal >>

SpecReorg == InitChain /\ [][ImportStart \/ ImportStep \/ ImportWriteFails]_vars

(* ---------------------- instruction-level machines --------------------- *)
\* execute_si called on the state directly, one instruction after another,
\* with end_block between blocks.  A call that fails leaves what it wrote.
MaxFlashOps == 4
MaxRedeemOps == 5
MaxPoROps == 4
MaxSocialOps == 3

Call(sender, si) == [sender |-> sender, si |-> si]

\* a genesis state that names a trusted credit oracle (init_chain takes any
\* GlobalState as genesis)
GenesisTrusting == [create_genesis_state EXCEPT !.trusted_credit_oracles = << 16 >>]

InitSI(genesis_states) ==
    /\ gs \in genesis_states
    /\ gs2 = << >>
    /\ height = 1
    /\ last = [kind |-> "init", accepted |-> << >>]
    /\ ops = 0
    /\ InitChainIdle

\* history: the proofs of reserves accepted so far, with their timestamps
accepted_after(accepted, si, ok) ==
    IF ok /\ si.op = "SubmitZkPoR" THEN Append(accepted, << si.proof, si.timestamp >>)
    ELSE accepted

SiStep(menu, bound) ==
    /\ ops < bound
    /\ \E c \in menu :
       \E r \in { execute_si(c.si, c.sender, gs, Ctx(height, << 0, 1, 16 >>)) } :
          /\ gs' = r.st
          /\ last' = [kind |-> "si", sender |-> c.sender, si |-> c.si, ok |-> r.ok,
                      accepted |-> accepted_after(last.accepted, c.si, r.ok)]
    /\ ops' = ops + 1
    /\ UNCHANGED << gs2, height, chainVars, appVars >>

SiEndBlock(bound) ==
    /\ ops < bound
    /\ gs' = end_block(gs)
    /\ height' = height + 1
    /\ last' = [kind |-> "end_block", accepted |-> last.accepted]
    /\ ops' = ops + 1
    /\ UNCHANGED << gs2, chainVars, appVars >>

ScoredMint(proof_ok) ==
    [op |-> "MintWithCreditScore", amount |-> 5, collateral_amount |-> 6,
     credit_score_proof |-> CreditProof(proof_ok, 700), min_score_threshold |-> 600,
     oracle |-> 16]

\* flash mints and burns among the other instructions that move LUSD
MenuFlash ==
    { Call(0, [op |-> "FlashMint", amount |-> 5, collateral_amount |-> c]) : c \in {4, 6} }
    \cup { Call(0, [op |-> "FlashBurn", amount |-> a]) : a \in {3, 5} }
    \cup { Call(1, [op |-> "FlashMint", amount |-> 3, collateral_amount |-> 4]),
           Call(1, [op |-> "FlashBurn", amount |-> 3]),
           Call(0, [op |-> "MintSenior", amount |-> 20, collateral_amount |-> 20,
                    proof |-> PoR(20)]),
           Call(0, ScoredMint(TRUE)),
           Call(0, [op |-> "RedeemSenior", amount |-> 5]),
           Call(0, [op |-> "InstantRedeem", amount |-> 5, destination |-> 1]),
           Call(0, [op |-> "Burn", amount |-> 5, asset |-> "LUSD"]),
           Call(0, [op |-> "Transfer", to |-> 1, amount |-> 5, asset |-> "LUSD"]),
           Call(0, [op |-> "FairRedeemQueue", batch_size |-> 1]) }

SpecFlash ==
    /\ InitSI({create_genesis_state, GenesisTrusting})
    /\ [][SiStep(MenuFlash, MaxFlashOps) \/ SiEndBlock(MaxFlashOps)]_vars

\* flash mints of small and of large amounts against several collaterals
MaxCollateralOps == 3
MenuCollateral ==
    { Call(a, [op |-> "FlashMint", amount |-> m, collateral_amount |-> c])
        : a \in {0, 1}, m \in {0, 5, 10, 40}, c \in {0, 5, 6, 11, 44} }
    \cup { Call(0, [op |-> "FlashBurn", amount |-> m]) : m \in {5, 10, 40} }

SpecCollateral ==
    /\ InitSI({create_genesis_state})
    /\ [][SiStep(MenuCollateral, MaxCollateralOps) \/ SiEndBlock(MaxCollateralOps)]_vars

\* listings and pledges of real-world assets.  The genesis states: the
\* default one, one that holds a deactivated listing, and one whose id counter
\* is at its maximum.
MaxRwaOps == 4
GenesisRwa ==
    [create_genesis_state EXCEPT
        !.rwa_listings = (0 :> RWAListing(ZERO_ADDR, "warehouse", RwaProof(TRUE), 40,
                                          None, TRUE, FALSE, 0)),
        !.next_rwa_id = 1]
GenesisRwaFull == [create_genesis_state EXCEPT !.next_rwa_id = U64_MAX]

MenuRWA ==
    { Call(0, [op |-> "ListRWA", asset_description |-> l[1], attested_value |-> l[2],
               attestation_proof |-> RwaProof(l[3]), maturity_date |-> None,
               collateral_eligibility |-> l[4]])
        : l \in { << "invoice", 40, TRUE, TRUE >>, << "invoice", 40, TRUE, FALSE >>,
                  << "", 40, TRUE, TRUE >>, << "invoice", 0, TRUE, TRUE >>,
                  << "invoice", 40, FALSE, TRUE >> } }
    \cup { Call(a, [op |-> "UseRWAAsCollateral", rwa_id |-> i, amount_to_pledge |-> m])
        : a \in {0, 1}, i \in {0, 1, 2}, m \in {0, 10, 30, 40} }

lusd_held(s, a) == IF a \in DOMAIN s.accounts THEN s.accounts[a].lusd_balance ELSE 0

\* history: the LUSD credited by UseRWAAsCollateral so far, by listing id
minted_so_far(l) == IF "minted" \in DOMAIN l THEN l.minted ELSE [i \in {} |-> 0]
minted_after(minted, c, before, after) ==
    IF c.si.op # "UseRWAAsCollateral" THEN minted
    ELSE LET credited == lusd_held(after, c.sender) - lusd_held(before, c.sender)
             sofar == IF c.si.rwa_id \in DOMAIN minted THEN minted[c.si.rwa_id] ELSE 0
         IN  (c.si.rwa_id :> sofar + credited) @@ minted

RwaStep ==
    /\ ops < MaxRwaOps
    /\ \E c \in MenuRWA :
       \E r \in { execute_si(c.si, c.sender, gs, Ctx(height, << 0, 1, 16 >>)) } :
          /\ gs' = r.st
          /\ last' = [kind |-> "si", sender |-> c.sender, si |-> c.si, ok |-> r.ok,
                      accepted |-> last.accepted,
                      minted |-> minted_after(minted_so_far(last), c, gs, r.st)]
    /\ ops' = ops + 1
    /\ UNCHANGED << gs2, height, chainVars, appVars >>

SpecRwa ==
    /\ InitSI({create_genesis_state, GenesisRwa, GenesisRwaFull})
    /\ [][RwaStep]_vars

\* yield tokens over a few blocks.  The genesis states hold LUSD for the
\* deployer alone, or for the deployer and account 1.
MaxYieldOps == 5
GenesisYield ==
    [create_genesis_state EXCEPT
        !.accounts[ZERO_ADDR].lusd_balance = 40,
        !.total_lusd_supply = 40, !.stabilization_pool_balance = 40]
GenesisYieldTwo ==
    [GenesisYield EXCEPT
        !.accounts = @ @@ (1 :> [AccountState_default EXCEPT !.lusd_balance = 20]),
        !.total_lusd_supply = 60, !.stabilization_pool_balance = 60]

MenuYield ==
    { Call(a, [op |-> "WrapToYieldToken", amount |-> m, maturity_blocks |-> b])
        : a \in {0, 1}, m \in {0, 20}, b \in {0, 1, 2} }
    \cup { Call(a, [op |-> "UnwrapYieldToken", token_id |-> i]) : a \in {0, 1}, i \in {0, 1} }

\* the positions of a state, each with the account that holds it
positions(s) ==
    UNION { { << a, s.accounts[a].yield_positions[i] >>
                : i \in 1 .. Len(s.accounts[a].yield_positions) } : a \in DOMAIN s.accounts }

\* history: the ids of the tokens unwrapped so far
unwrapped_so_far(l) == IF "unwrapped" \in DOMAIN l THEN l.unwrapped ELSE {}

YieldStep ==
    /\ ops < MaxYieldOps
    /\ \E c \in MenuYield :
       \E r \in { execute_si(c.si, c.sender, gs, Ctx(height, << 0, 1, 16 >>)) } :
          /\ gs' = r.st
          /\ last' = [kind |-> "si", sender |-> c.sender, si |-> c.si, ok |-> r.ok,
                      accepted |-> last.accepted,
                      unwrapped |-> unwrapped_so_far(last) \cup
                          { x[2].token_id : x \in positions(gs) \ positions(r.st) }]
    /\ ops' = ops + 1
    /\ UNCHANGED << gs2, height, chainVars, appVars >>

YieldEndBlock ==
    /\ ops < MaxYieldOps
    /\ gs' = end_block(gs)
    /\ height' = height + 1
    /\ last' = [kind |-> "end_block", accepted |-> last.accepted,
                unwrapped |-> unwrapped_so_far(last)]
    /\ ops' = ops + 1
    /\ UNCHANGED << gs2, chainVars, appVars >>

SpecYield ==
    /\ InitSI({GenesisYield, GenesisYieldTwo})
    /\ [][YieldStep \/ YieldEndBlock]_vars

\* the instructions that move LUSD in and out of the supply: mints,
\* redemptions, burns, the redeem queue, yield tokens and insurance claims
MaxSolvencyOps == 4
MenuSolvency ==
    { Call(0, [op |-> "MintSenior", amount |-> m[1], collateral_amount |-> m[2],
               proof |-> PoR(m[2])]) : m \in { << 25, 23 >>, << 40, 36 >> } }
    \cup { Call(0, [op |-> "RedeemSenior", amount |-> 5]),
           Call(0, [op |-> "Burn", amount |-> 5, asset |-> "LUSD"]),
           Call(0, [op |-> "FairRedeemQueue", batch_size |-> 1]),
           Call(0, [op |-> "WrapToYieldToken", amount |-> 20, maturity_blocks |-> 1]),
           Call(0, [op |-> "UnwrapYieldToken", token_id |-> 0]) }
    \cup { Call(a, [op |-> "ClaimInsurance", loss_proof |-> LossProof(v), claimed_amount |-> m])
        : a \in {0, 1}, v \in BOOLEAN, m \in {2, 5} }

SpecSolvency ==
    /\ InitSI({create_genesis_state})
    /\ [][SiStep(MenuSolvency, MaxSolvencyOps) \/ SiEndBlock(MaxSolvencyOps)]_vars

\* senior mints, redemptions and the redeem queue, with the breaker on and off
MenuRedeem ==
    { Call(0, [op |-> "MintSenior", amount |-> 20, collateral_amount |-> c,
               proof |-> PoR(c)]) : c \in {10, 20} }
    \cup { Call(0, ScoredMint(v)) : v \in BOOLEAN }
    \cup { Call(0, [op |-> "RedeemSenior", amount |-> a]) : a \in {3, 5} }
    \cup { Call(0, [op |-> "RunCircuitBreaker", active |-> b]) : b \in BOOLEAN }
    \cup { Call(0, [op |-> "FairRedeemQueue", batch_size |-> n]) : n \in {1, 2} }
    \cup { Call(0, [op |-> "InstantRedeem", amount |-> 4, destination |-> 1]),
           Call(0, [op |-> "Transfer", to |-> 1, amount |-> 6, asset |-> "LUSD"]),
           Call(0, [op |-> "Burn", amount |-> 2, asset |-> "LUSD"]),
           Call(1, [op |-> "RedeemSenior", amount |-> 2]),
           Call(1, [op |-> "InstantRedeem", amount |-> 1, destination |-> 0]) }

SpecRedeem ==
    /\ InitSI({create_genesis_state, GenesisTrusting})
    /\ [][SiStep(MenuRedeem, MaxRedeemOps) \/ SiEndBlock(MaxRedeemOps)]_vars

\* proofs of reserves: valid for the reserves they are submitted with, valid
\* for other reserves, and junk; at any timestamp
MenuPoR ==
    { Call(0, [op |-> "SubmitZkPoR", proof |-> p, total_reserves |-> v, timestamp |-> t])
        : p \in {PoR(10), PoR(20), JunkProof}, v \in {10, 20}, t \in 1 .. MaxPoROps }
    \cup { Call(0, [op |-> "MintSenior", amount |-> 20, collateral_amount |-> 20,
                    proof |-> PoR(20)]) }

SpecPoR ==
    /\ InitSI({create_genesis_state})
    /\ [][SiStep(MenuPoR, MaxPoROps) \/ SiEndBlock(MaxPoROps)]_vars

\* senior mints with and without a credit score, and order batches: proofs
\* that are valid with a score above or below the threshold or invalid, from
\* a trusted or an unknown oracle; batches that are empty, repeated,
\* reordered, with a duplicate, or one order too long
MaxMintOps == 4
OrderLists ==
    { << >>, << 1 >>, << 1, 2 >>, << 2, 1 >>, << 1, 1 >>, << 1, 2, 1 >>,
      [i \in 1 .. MaxBatchOrders + 1 |-> i] }

MenuMint ==
    { Call(0, [op |-> "MintWithCreditScore", amount |-> 20, collateral_amount |-> c,
               credit_score_proof |-> p, min_score_threshold |-> 600, oracle |-> o])
        : c \in {19, 22}, o \in {16, 1},
          p \in { CreditProof(TRUE, 700), CreditProof(TRUE, 820),
                  CreditProof(FALSE, 700), CreditProof(TRUE, 400) } }
    \cup { Call(0, [op |-> "MintSenior", amount |-> a, collateral_amount |-> 20,
                    proof |-> p]) : a \in {5, 20, 30}, p \in {PoR(20), EmptyProof} }
    \cup { Call(0, [op |-> "RunCircuitBreaker", active |-> b]) : b \in BOOLEAN }
    \cup { Call(1, [op |-> "ZeroSlipBatchMatch", orders |-> o]) : o \in OrderLists }

SpecMint ==
    /\ InitSI({create_genesis_state, GenesisTrusting})
    /\ [][SiStep(MenuMint, MaxMintOps) \/ SiEndBlock(MaxMintOps)]_vars

\* transfers of every asset between funded and empty accounts, to oneself and
\* to a fresh account, from the genesis state and from a state seeded the way
\* the simulator seeds its wallets
RECURSIVE seed_simulation_money(_, _, _)
seed_simulation_money(s, wallets, amount) ==
    IF wallets = << >>
    THEN [s EXCEPT !.stabilization_pool_balance =
                        saturating_mul(s.total_lusd_supply, 5) \div 4,
                   !.reserve_ratio = f64_div(5, 4)]
    ELSE seed_simulation_money(
            [s EXCEPT !.accounts = (Head(wallets) :>
                                       [AccountState_default EXCEPT !.lusd_balance = amount])
                                   @@ @,
                      !.total_lusd_supply = saturating_add(@, amount)],
            Tail(wallets), amount)

RECURSIVE seed_custom_assets(_, _, _, _)
seed_custom_assets(s, wallets, custom_assets, amount) ==
    IF wallets = << >> THEN s
    ELSE seed_custom_assets(
            [Entry(s, Head(wallets)) EXCEPT
                !.accounts[Head(wallets)].custom_balances =
                    [t \in custom_assets |-> amount] @@ @],
            Tail(wallets), custom_assets, amount)

SeededState ==
    seed_custom_assets(seed_simulation_money(GlobalState_default, << 0, 1 >>, 10),
                       << 0, 1 >>, {"Custom:BTC"}, 40)

MaxTransferOps == 3
MenuTransfer ==
    { Call(a, [op |-> "Transfer", to |-> b, amount |-> n, asset |-> t])
        : a \in {0, 1}, b \in Addrs, n \in {0, 4, 30},
          t \in {"LUSD", "LJUN", "Lumina", "Custom:BTC", "Custom:ETH"} }
    \cup { Call(0, [op |-> "MintJunior", amount |-> 8, collateral_amount |-> 8]) }
    \cup { Call(a, [op |-> "Burn", amount |-> 4, asset |-> t])
             : a \in {0, 1}, t \in {"LUSD", "Custom:BTC"} }

SpecTransfer ==
    /\ InitSI({create_genesis_state, SeededState})
    /\ [][SiStep(MenuTransfer, MaxTransferOps) \/ SiEndBlock(MaxTransferOps)]_vars

\* lists of transactions of accounts 0x00 and 0x01: transfers and mints with
\* the stored nonce and the one after it, and a forged transfer
MaxListLen == 2
MaxParOps == 3
ParTxs(s) ==
    { Tx(0, stored_nonce(s, 0) + k, honest_signature(s, 0), i)
        : k \in {0, 1},
          i \in { [op |-> "Transfer", to |-> 1, amount |-> 1, asset |-> "Lumina"],
                  [op |-> "MintJunior", amount |-> 1, collateral_amount |-> 1] } }
    \cup { Tx(1, stored_nonce(s, 1), sig,
               [op |-> "Transfer", to |-> 16, amount |-> 1, asset |-> "Lumina"])
             : sig \in {honest_signature(s, 1), "bad"} }

ParLists(s) == UNION { [1 .. n -> ParTxs(s)] : n \in 0 .. MaxListLen }

ParBatch ==
    /\ ops < MaxParOps
    /\ \E txs \in ParLists(gs) :
       \E r \in { execute_transactions_parallel_non_conflicting(
                     txs, gs, Ctx(height, << 0, 1, 16 >>)) } :
          /\ gs' = r.st
          /\ last' = [kind |-> "batch", txs |-> txs, ok |-> r.ok,
                      accepted |-> last.accepted]
    /\ ops' = ops + 1
    /\ UNCHANGED << gs2, height, chainVars, appVars >>

SpecParallel ==
    /\ InitSI({create_genesis_state})
    /\ [][ParBatch \/ SiEndBlock(MaxParOps)]_vars

(* ------------------- the application and its write-ahead log ----------- *)
\* LuminaApp as a record: state, storage and height, the in-flight block and
\* the file at wal_path.  The variables gs, db, height, inflight and wal hold
\* the fields of the running application.
MaxAppOps == 5
MaxAppHeight == 2

\* bincode: a transaction serializes to bytes that deserialize to it; the
\* empty byte string deserializes to nothing
bincode_serialize(tx) == << "bincode", tx >>
GarbageBytes == << >>
deserializes(bytes) == Len(bytes) = 2 /\ bytes[1] = "bincode"
bincode_deserialize(bytes) == bytes[2]

\* Storage::load_state: the default state when nothing was saved
load_state(d) == IF d.global_state = None THEN GlobalState_default ELSE d.global_state[1]

recover_from_wal(a) ==
    IF a.wal = None THEN a
    ELSE LET w == a.wal[1] IN
         [a EXCEPT !.height = w.height,
                   !.inflight = IF w.current_block = None THEN None
                                ELSE Some([height |-> w.current_block[1].height,
                                           timestamp |-> w.current_block[1].timestamp,
                                           txs |-> w.pending_txs])]

LuminaApp_new(storage, wal_file) ==
    recover_from_wal([state |-> load_state(storage), storage |-> storage, height |-> 0,
                      inflight |-> None, wal |-> wal_file])

persist_wal(a) ==
    [a EXCEPT !.wal =
        Some([height |-> a.height,
              current_block |-> IF a.inflight = None THEN None
                                ELSE Some([height |-> a.inflight[1].height,
                                           proposer |-> ZERO_ADDR,
                                           timestamp |-> a.inflight[1].timestamp]),
              pending_txs |-> IF a.inflight = None THEN << >> ELSE a.inflight[1].txs])]

clear_wal(a) == [a EXCEPT !.wal = None]

\* the outcome of a call on the application: the application after it; for
\* commit, the height of the CommitResponse
AppOk(a) == [ok |-> TRUE, app |-> a]
AppErr(a) == [ok |-> FALSE, app |-> a]

init_chain(a, genesis_state, initial_height) ==
    LET a1 == [a EXCEPT !.state = genesis_state, !.height = initial_height]
        a2 == [a1 EXCEPT !.storage = save_state(@, a1.state)]
        a3 == [a2 EXCEPT !.storage = save_state_at_height(@, a2.height, a2.state)]
    IN  AppOk(persist_wal(a3))

begin_block(a, req) ==
    IF req.height <= a.height THEN AppErr(a)
    ELSE AppOk(persist_wal([a EXCEPT !.inflight =
                                Some([height |-> req.height, timestamp |-> req.timestamp,
                                      txs |-> << >>])]))

deliver_tx(a, tx_bytes) ==
    IF ~deserializes(tx_bytes) THEN AppErr(a)
    ELSE IF a.inflight = None THEN AppErr(a)
    ELSE AppOk(persist_wal([a EXCEPT !.inflight[1].txs = Append(@, tx_bytes)]))

app_end_block(a, req_height) ==
    IF a.inflight = None THEN AppErr(a)
    ELSE IF req_height # a.inflight[1].height THEN AppErr(a)
    ELSE AppOk(a)

\* the loop of commit over the bytes of the in-flight block: it stops at the
\* first transaction that fails, with what that transaction has written
RECURSIVE commit_loop(_, _, _)
commit_loop(txs, s, ctx) ==
    IF txs = << >> THEN Ok(s)
    ELSE IF ~deserializes(Head(txs)) THEN Err(s)
    ELSE LET r == execute_transaction(bincode_deserialize(Head(txs)), s, ctx)
         IN  IF r.ok THEN commit_loop(Tail(txs), r.st, ctx) ELSE r

commit_ctx(b) == [height |-> b.height, timestamp |-> b.timestamp, order |-> << 0, 1, 16 >>]

\* the loop of commit on the application a; without an in-flight block
\* commit fails before it
commit_run(a) ==
    IF a.inflight = None THEN Err(a.state)
    ELSE commit_loop(a.inflight[1].txs, a.state, commit_ctx(a.inflight[1]))

\* the writes of commit that follow the loop, on the application c that holds
\* the new state and height in memory: none (1), save_state (2),
\* save_state_at_height (3), clear_wal (4)
commit_writes(c, k) ==
    IF k = 1 THEN c
    ELSE IF k = 2 THEN [c EXCEPT !.storage = save_state(@, c.state)]
    ELSE IF k = 3
    THEN [c EXCEPT !.storage = save_state_at_height(save_state(@, c.state), c.height, c.state)]
    ELSE clear_wal([c EXCEPT !.storage =
                        save_state_at_height(save_state(@, c.state), c.height, c.state)])

\* commit with the outcome r of its loop, after k of its writes.  The
\* in-flight block is taken before the loop.
commit_point(a, r, k) ==
    IF ~r.ok THEN [a EXCEPT !.inflight = None, !.state = r.st]
    ELSE commit_writes([a EXCEPT !.inflight = None, !.state = end_block(r.st),
                                 !.height = a.inflight[1].height], k)

commit_with(a, r) ==
    IF a.inflight = None THEN AppErr(a)
    ELSE IF ~r.ok THEN AppErr(commit_point(a, r, 4))
    ELSE AppOk(commit_point(a, r, 4))

commit(a) == commit_with(a, commit_run(a))

App == [state |-> gs, storage |-> db, height |-> height, inflight |-> inflight, wal |-> wal]

\* the application after the step, and the history of the step: the heights
\* returned by successful commits so far and the height init_chain started at
AppStep(kind, r, committed) ==
    /\ gs' = r.app.state
    /\ db' = r.app.storage
    /\ height' = r.app.height
    /\ inflight' = r.app.inflight
    /\ wal' = r.app.wal
    /\ last' = [kind |-> kind, ok |-> r.ok, committed |-> committed,
                initial_height |-> IF kind = "init_chain" THEN r.app.height
                                   ELSE last.initial_height]
    /\ ops' = ops + 1
    /\ UNCHANGED << gs2, state, current_height, last_block_hash, mempool, seen_blocks,
                    hash_rank, lastImport, pending >>

\* the driver calls init_chain once, on a fresh application
AppInitChain ==
    /\ ops = 0
    /\ \E initial_height \in {0, 1} :
       \E r \in { init_chain(App, create_genesis_state, initial_height) } :
          AppStep("init_chain", r, last.committed)

AppBeginBlock ==
    /\ ops < MaxAppOps
    /\ \E h \in 0 .. MaxAppHeight, t \in {1, 2} :
       \E r \in { begin_block(App, [height |-> h, proposer |-> 1, timestamp |-> t]) } :
          AppStep("begin_block", r, last.committed)

AppTxBytes ==
    { bincode_serialize(Tx(0, n, "ed25519",
                           [op |-> "MintJunior", amount |-> 1, collateral_amount |-> 1]))
        : n \in {0, 1} }
    \cup { GarbageBytes }

AppDeliverTx ==
    /\ ops < MaxAppOps
    /\ \E tx_bytes \in AppTxBytes :
       \E r \in { deliver_tx(App, tx_bytes) } :
          AppStep("deliver_tx", r, last.committed)

AppEndBlock ==
    /\ ops < MaxAppOps
    /\ \E h \in 1 .. MaxAppHeight :
       \E r \in { app_end_block(App, h) } :
          AppStep("end_block", r, last.committed)

AppCommit ==
    /\ ops < MaxAppOps
    /\ \E r \in { commit(App) } :
          AppStep("commit", r,
                  IF r.ok THEN Append(last.committed, r.app.height) ELSE last.committed)

\* the process stops while no call is running and is started again over the
\* same storage and the same WAL path
AppRestart ==
    /\ ops < MaxAppOps
    /\ \E a \in { LuminaApp_new(db, wal) } :
          AppStep("restart", AppOk(a), last.committed)

\* the process stops inside commit, after k of its writes, and is started
\* again
AppRestartInCommit ==
    /\ ops < MaxAppOps
    /\ inflight # None
    /\ \E r \in { commit_run(App) } :
          /\ r.ok
          /\ \E k \in 1 .. 3 :
             \E c \in { commit_point(App, r, k) } :
                AppStep("restart_in_commit", AppOk(LuminaApp_new(c.storage, c.wal)),
                        last.committed)

InitApp ==
    /\ gs = GlobalState_default
    /\ gs2 = << >>
    /\ height = 0
    /\ last = [kind |-> "new", ok |-> TRUE, committed |-> << >>, initial_height |-> 0]
    /\ ops = 0
    /\ db = MemDb_default
    /\ state = << >>
    /\ current_height = 0
    /\ last_block_hash = ZERO_HASH
    /\ mempool = << >>
    /\ seen_blocks = {}
    /\ hash_rank = << >>
    /\ lastImport = NoImport
    /\ inflight = None
    /\ wal = None
    /\ pending = << >>

NextApp ==
    \/ AppInitChain
    \/ AppBeginBlock
    \/ AppDeliverTx
    \/ AppEndBlock
    \/ AppCommit
    \/ AppRestart
    \/ AppRestartInCommit

SpecApp == InitApp /\ [][NextApp]_vars

\* passkey accounts and their recovery by guardians 1, 2 and 3
SigKinds ==
    { GuardianSig({1}, << 7 >>), GuardianSig({2}, << 7 >>), GuardianSig({1, 2}, << 7 >>),
      GuardianSig({}, << 7 >>), GuardianSig({3}, << 8 >>) }

SigLists ==
    UNION { [1 .. n -> SigKinds] : n \in 0 .. MaxSocialOps }

MenuSocial ==
    { Call(1, [op |-> "CreatePasskeyAccount", device_key |-> k, guardians |-> g])
        : k \in {<< 9 >>, << 0 >>}, g \in {<< 1, 2, 3 >>, << 1, 1, 2 >>, << 1 >>} }
    \cup { Call(1, [op |-> "RecoverSocial", new_device_key |-> << 7 >>,
                    guardian_signatures |-> sigs]) : sigs \in SigLists }

SpecSocial ==
    /\ InitSI({create_genesis_state})
    /\ [][SiStep(MenuSocial, MaxSocialOps) \/ SiEndBlock(MaxSocialOps)]_vars

(* ===================== properties of the execution core ================ *)

\* C1 (atomic rollback): whenever execute_transaction returns an error, the
\* GlobalState after the call equals the GlobalState before the call: no
\* nonce incremented, no account entry created, no field changed.
C1_AtomicRollback ==
    [][(last'.kind = "tx" /\ ~last'.ok) => gs' = gs]_vars

C4_NonceMonotonicity ==
    [][(last'.kind = "tx" /\ last'.ok) =>
         LET tx == last'.tx
         IN  /\ tx.nonce = stored_nonce(gs, tx.sender)
             /\ stored_nonce(gs', tx.sender) = stored_nonce(gs, tx.sender) + 1
             /\ \A a \in Addrs \ {tx.sender} : stored_nonce(gs', a) = stored_nonce(gs, a)
      ]_vars

\* a second account's first transaction accepted after two of the deployer's
C4_Witness ==
    /\ last.kind = "tx" /\ last.ok /\ last.tx.sender = 1
    /\ stored_nonce(gs, 1) = 1
    /\ stored_nonce(gs, 0) = 2

\* C9 (reserve-ratio latch): once an operation leaves reserve_ratio < 0.85,
\* circuit_breaker_active is true until a RunCircuitBreaker{active: false}
\* executes; nothing but RunCircuitBreaker{active: false}, end_block
\* included, turns circuit_breaker_active from true to false.
C9_ReserveRatioLatch ==
    [][LET clears == /\ last'.kind = "tx" /\ last'.ok
                     /\ last'.tx.instruction.op = "RunCircuitBreaker"
                     /\ ~last'.tx.instruction.active
       IN  /\ (~clears /\ f64_lt(gs'.reserve_ratio, 85, 100)) => gs'.circuit_breaker_active
           /\ (gs.circuit_breaker_active /\ ~gs'.circuit_breaker_active) => clears
      ]_vars

\* C10 (circuit-breaker invariant): every state reachable from the default
\* GlobalState satisfies reserve_ratio < 0.85 => circuit_breaker_active.
C10_CircuitBreakerInvariant ==
    f64_lt(gs.reserve_ratio, 85, 100) => gs.circuit_breaker_active

(* ====================== properties of block import ===================== *)
WasImport(li) == li.kind \in {"net", "tick"}

\* C2 (build/import agreement): the block build_block_from_parent produces
\* has the state root of executing exactly its transactions, in order, on
\* the parent state, so its import never fails on the state root, dropped
\* candidates or not.
C2_BuildImportAgreement ==
    lastImport.kind = "tick" =>
        /\ lastImport.block.header.state_root =
              root_hash(execute_all(lastImport.block.transactions, lastImport.parent,
                                    BlockCtx(lastImport.block.header)).st)
        /\ lastImport.err # "Invalid state_root"

\* C5 (a rejected import changes nothing): when import_block_and_maybe_reorg
\* fails, blocks, block-meta, states by hash, canonical map, snapshots, tip
\* and the in-memory state are as before the call.
C5_RejectedImportChangesNothing ==
    [][(WasImport(lastImport') /\ lastImport'.res = "err") => (db' = db /\ state' = state)]_vars

\* a block rejected for its state root by a node that has imported a block
C5_Witness ==
    /\ WasImport(lastImport) /\ lastImport.res = "err"
    /\ lastImport.err = "Invalid state_root"
    /\ DOMAIN db.block_meta # {}

\* C6 (re-import idempotence): importing a block whose hash has block-meta
\* returns "no reorg" and leaves storage, tip and in-memory state unchanged.
C6_ReimportIdempotent ==
    [][(WasImport(lastImport') /\ lastImport'.known) =>
          (lastImport'.res = "no_reorg" /\ db' = db /\ state' = state)]_vars

\* a block imported again after another block was imported in between, the
\* re-imported block not being the tip
C6_Witness ==
    /\ WasImport(lastImport) /\ lastImport.known
    /\ Cardinality(DOMAIN db.block_meta) = 2
    /\ db.tip[1][2] # Block_hash(lastImport.block)

pair_gt(ranks, p, q) == p[1] > q[1] \/ (p[1] = q[1] /\ hash_gt(ranks, p[2], q[2]))

TipIsGreatest ==
    LET pairs == { << db.block_meta[b][1], b >> : b \in DOMAIN db.block_meta } IN
    /\ db.tip # None
    /\ IF pairs = {} THEN db.tip[1] = << 0, ZERO_HASH >>
       ELSE /\ db.tip[1] \in pairs
            /\ \A p \in pairs : ~pair_gt(hash_rank, p, db.tip[1])

\* C7 (fork choice): the stored tip is the greatest (height, hash) among the
\* imported blocks (the genesis tip when there is none); an import reorgs
\* exactly when its block is strictly greater than the current tip, and the
\* tip never moves to a smaller pair.
C7_ForkChoice ==
    /\ []TipIsGreatest
    /\ [][ /\ (WasImport(lastImport') /\ lastImport'.res # "err") =>
                 ((lastImport'.res = "reorg") <=>
                    pair_gt(hash_rank', << lastImport'.block.header.height,
                                           Block_hash(lastImport'.block) >>, db.tip[1]))
           /\ ~pair_gt(hash_rank', db.tip[1], db'.tip[1])
         ]_vars

\* a tie at the tip's height decided by the hash: the new block won
C7_Witness ==
    /\ WasImport(lastImport) /\ lastImport.res = "reorg"
    /\ \E b \in DOMAIN db.block_meta :
          /\ b # db.tip[1][2]
          /\ db.block_meta[b][1] = db.tip[1][1]

\* C8 (reorg consistency): after a successful reorg to tip T, canonical[h]
\* is defined for 2 <= h <= height(T), its block-meta parent is
\* canonical[h-1], and canonical[height(T)] = T, whatever height the header
\* declares relative to its parent.
C8_ReorgConsistency ==
    (WasImport(lastImport) /\ lastImport.res = "reorg") =>
        LET T == db.tip[1]
            canonical == db.canonical_hash_by_height
        IN  /\ T[1] \in DOMAIN canonical /\ canonical[T[1]] = T[2]
            /\ \A h \in 2 .. T[1] :
                  /\ {h, h - 1} \subseteq DOMAIN canonical
                  /\ db.block_meta[canonical[h]][2] = canonical[h - 1]

(* ================= properties of the single instructions =============== *)
\* the instructions that mint, redeem, burn or transfer LUSD
moves_lusd(si) ==
    \/ si.op \in {"MintSenior", "MintWithCreditScore", "FlashMint", "FlashBurn",
                  "RedeemSenior", "InstantRedeem", "FairRedeemQueue"}
    \/ si.op \in {"Burn", "Transfer"} /\ si.asset = "LUSD"

ratio_of_totals(s) ==
    IF s.total_lusd_supply = 0 THEN f64_one
    ELSE f64_div(s.stabilization_pool_balance, s.total_lusd_supply)

\* C11 (reserve-ratio consistency): after every successful instruction that
\* mints, redeems, burns or transfers LUSD, the stored reserve_ratio is
\* stabilization_pool_balance / total_lusd_supply, and 1.0 when the supply is 0.
C11_ReserveRatioConsistency ==
    [][(last'.kind = "si" /\ last'.ok /\ moves_lusd(last'.si))
         => gs'.reserve_ratio = ratio_of_totals(gs')]_vars

RECURSIVE sum_pending_flash_mint(_, _)
sum_pending_flash_mint(s, addrs) ==
    IF addrs = {} THEN 0
    ELSE LET a == CHOOSE x \in addrs : TRUE
         IN  s.accounts[a].pending_flash_mint + sum_pending_flash_mint(s, addrs \ {a})

\* C12 (flash-mint aggregate): at all times, after every instruction and
\* after every end_block, the global pending_flash_mints equals the sum over
\* all accounts of pending_flash_mint.
C12_FlashMintAggregate ==
    gs.pending_flash_mints = sum_pending_flash_mint(gs, DOMAIN gs.accounts)

\* C13 (flash mints balance within their block): after end_block has run,
\* pending_flash_mints is 0 and every account's pending_flash_mint and
\* pending_flash_collateral are 0.
C13_FlashMintsBalanceInBlock ==
    [][last'.kind = "end_block"
         => /\ gs'.pending_flash_mints = 0
            /\ \A a \in DOMAIN gs'.accounts :
                  /\ gs'.accounts[a].pending_flash_mint = 0
                  /\ gs'.accounts[a].pending_flash_collateral = 0]_vars

\* what a flash mint and its burn are to restore, for account a
flash_fields(s, a) ==
    LET account == Entry(s, a).accounts[a]
    IN  << s.total_lusd_supply, s.stabilization_pool_balance, account.lusd_balance,
           account.pending_flash_mint, account.pending_flash_collateral,
           s.pending_flash_mints >>

FlashAmounts == {0, 1, 3, 5, U64_MAX}
FlashCollaterals == {1, 4, 6, U64_MAX}

senior_mint_ops == { "MintSenior", "MintWithCreditScore" }
lusd_of(s, a) == Entry(s, a).accounts[a].lusd_balance

C15_BreakerPausesSeniorMints ==
    [][ ( /\ last'.kind = "si"
          /\ last'.si.op \in senior_mint_ops
          /\ gs.circuit_breaker_active )
        => ( /\ ~last'.ok
             /\ gs'.total_lusd_supply <= gs.total_lusd_supply
             /\ lusd_of(gs', last'.sender) <= lusd_of(gs, last'.sender) ) ]_vars

\* C16: redeem queueing under stress.  At every reachable state, for every
\* sender, amount, destination and block timestamp, RedeemSenior and
\* InstantRedeem return the same result and the same state.  With amount > 0
\* and enough LUSD on the sender: under an active circuit breaker or a reserve
\* ratio below 0.95 the sender's LUSD drops by amount, one request {sender,
\* amount, timestamp} is appended at the tail of fair_redeem_queue, and the
\* supply and the pool are unchanged; otherwise the sender's LUSD and the
\* supply each drop by amount and the queue is unchanged.
RedeemAmounts == {0, 1, 2, 4, 5, U64_MAX}
Destinations == {0, 1, 16}

redeem_effect_ok(s, sender, amount, timestamp, r) ==
    IF s.circuit_breaker_active \/ f64_lt(s.reserve_ratio, 95, 100)
    THEN /\ r.ok
         /\ lusd_of(r.st, sender) = lusd_of(s, sender) - amount
         /\ r.st.fair_redeem_queue =
                Append(s.fair_redeem_queue,
                       [address |-> sender, amount |-> amount, timestamp |-> timestamp])
         /\ r.st.total_lusd_supply = s.total_lusd_supply
         /\ r.st.stabilization_pool_balance = s.stabilization_pool_balance
    ELSE /\ r.ok
         /\ lusd_of(r.st, sender) = lusd_of(s, sender) - amount
         /\ r.st.total_lusd_supply = s.total_lusd_supply - amount
         /\ r.st.fair_redeem_queue = s.fair_redeem_queue

C16_RedeemQueueingUnderStress ==
    \A sender \in Destinations : \A amount \in RedeemAmounts :
        \E r \in { RedeemSenior(gs, sender, amount, height) } :
            /\ \A destination \in Destinations :
                  InstantRedeem(gs, sender, amount, destination, height) = r
            /\ (amount > 0 /\ lusd_of(gs, sender) >= amount)
                  => redeem_effect_ok(gs, sender, amount, height, r)

C16_Witness ==
    /\ last.kind = "si" /\ last.si.op = "InstantRedeem" /\ last.ok
    /\ gs.total_lusd_supply > 0
    /\ Len(gs.fair_redeem_queue) > 0
    /\ gs.fair_redeem_queue[Len(gs.fair_redeem_queue)].address = last.sender
    /\ gs.fair_redeem_queue[Len(gs.fair_redeem_queue)].amount = last.si.amount

\* C17: the fair redeem queue is strict FIFO.  A FairRedeemQueue{batch_size}
\* executed with the circuit breaker off succeeds, removes exactly the first
\* min(batch_size, queue length) requests, lowers total_lusd_supply by the sum
\* of their amounts (saturating at 0) and keeps the remaining requests in
\* their order; executed with the breaker active it fails and leaves the
\* queue unchanged; every other instruction, and end_block, keeps the queue
\* as a prefix of the new queue.
RECURSIVE sum_amounts(_)
sum_amounts(reqs) ==
    IF reqs = << >> THEN 0 ELSE Head(reqs).amount + sum_amounts(Tail(reqs))

is_prefix(q, q2) == Len(q) <= Len(q2) /\ SubSeq(q2, 1, Len(q)) = q

fifo_batch_ok(s, batch_size, ok, s2) ==
    LET q == s.fair_redeem_queue
        n == Min(batch_size, Len(q))
        paid == sum_amounts(SubSeq(q, 1, n))
    IN  IF s.circuit_breaker_active
        THEN ~ok /\ s2.fair_redeem_queue = q
        ELSE /\ ok
             /\ s2.fair_redeem_queue = SubSeq(q, n + 1, Len(q))
             /\ s2.total_lusd_supply =
                    IF paid >= s.total_lusd_supply THEN 0 ELSE s.total_lusd_supply - paid

C17_FairRedeemQueueFifo ==
    [][ IF last'.kind = "si" /\ last'.si.op = "FairRedeemQueue"
        THEN fifo_batch_ok(gs, last'.si.batch_size, last'.ok, gs')
        ELSE is_prefix(gs.fair_redeem_queue, gs'.fair_redeem_queue) ]_vars

C17_Witness ==
    /\ last.kind = "si" /\ last.si.op = "FairRedeemQueue" /\ last.ok
    /\ Len(gs.fair_redeem_queue) >= 1

\* C18: social recovery threshold and guardian uniqueness.  A RecoverSocial
\* succeeds, and sets passkey_device_key to new_device_key, only if at least
\* floor(|guardians| / 2) + 1 distinct guardians of the sender's account have
\* a valid signature over new_device_key among the supplied signatures (a
\* guardian counts once however many of its signatures are supplied); when
\* fewer have, the instruction fails and the device key is unchanged.
signing_guardians(guardians, new_device_key, sigs) ==
    { g \in Range(guardians) :
        \E i \in 1 .. Len(sigs) : verify_signature_bytes(g, new_device_key, sigs[i]) }

device_key_of(s, a) == Entry(s, a).accounts[a].passkey_device_key

recovery_ok(s, sender, si, ok, s2) ==
    LET guardians == Entry(s, sender).accounts[sender].guardians
        threshold == (Len(guardians) \div 2) + 1
        distinct == Cardinality(signing_guardians(guardians, si.new_device_key,
                                                  si.guardian_signatures))
    IN  /\ ok => ( /\ distinct >= threshold
                   /\ device_key_of(s2, sender) = Some(si.new_device_key) )
        /\ ~ok => device_key_of(s2, sender) = device_key_of(s, sender)
        /\ distinct < threshold => ~ok

C18_RecoveryThreshold ==
    [][ (last'.kind = "si" /\ last'.si.op = "RecoverSocial")
        => recovery_ok(gs, last'.sender, last'.si, last'.ok, gs') ]_vars

C18_Witness ==
    /\ last.kind = "si" /\ last.si.op = "RecoverSocial" /\ last.ok
    /\ device_key_of(gs, last.sender) = Some(last.si.new_device_key)
    /\ \E i, j \in 1 .. Len(last.si.guardian_signatures) :
          i < j /\ last.si.guardian_signatures[i] = last.si.guardian_signatures[j]

\* C19: PoR monotonicity.  The timestamps of the successfully executed
\* SubmitZkPoR instructions are strictly increasing along the execution,
\* last_por_timestamp never decreases, and a SubmitZkPoR whose timestamp is
\* at most last_por_timestamp fails and leaves stabilization_pool_balance
\* unchanged.
strictly_increasing_timestamps(accepted) ==
    \A i, j \in 1 .. Len(accepted) : i < j => accepted[i][2] < accepted[j][2]

C19_PoRMonotonicity ==
    [][ /\ strictly_increasing_timestamps(last'.accepted)
        /\ gs'.last_por_timestamp >= gs.last_por_timestamp
        /\ ( /\ last'.kind = "si" /\ last'.si.op = "SubmitZkPoR"
             /\ last'.si.timestamp <= gs.last_por_timestamp )
           => ( /\ ~last'.ok
                /\ gs'.stabilization_pool_balance = gs.stabilization_pool_balance ) ]_vars

C19_Witness ==
    /\ Len(last.accepted) >= 2
    /\ last.kind = "si" /\ last.si.op = "SubmitZkPoR" /\ ~last.ok
    /\ last.si.timestamp <= gs.last_por_timestamp
    /\ verify_zk_por(last.si.proof, last.si.total_reserves)
    /\ gs.last_por_hash # Some(blake3_hash(last.si.proof))

\* C20: PoR replay protection.  A proof that SubmitZkPoR accepted once is
\* never accepted again, whatever was accepted in between and whatever
\* timestamp comes with the replay: no proof occurs twice among the accepted
\* submissions.
C20_PoRNoReplay ==
    \A i, j \in 1 .. Len(last.accepted) :
        i < j => last.accepted[i][1] # last.accepted[j][1]

\* C21: replay tags are permanent.  (a) used_credit_proofs only grows; a
\* MintWithCreditScore that succeeds fee-free leaves the hash of its proof in
\* used_credit_proofs, and a MintWithCreditScore whose proof hash is already
\* there never succeeds fee-free and records nothing.  (b)
\* executed_batch_matches only grows; a ZeroSlipBatchMatch that succeeds
\* leaves its batch id there, one whose batch id is already there fails, and
\* one whose batch is empty, longer than 1000 or holds a duplicate order
\* fails and records nothing.
scored_success(s, sender, si, ok, s2) ==
    ok /\ lusd_of(s2, sender) = lusd_of(s, sender) + si.amount

credit_tag_ok(s, sender, si, ok, s2) ==
    LET proof_id == blake3_hash(si.credit_score_proof)
    IN  /\ scored_success(s, sender, si, ok, s2)
             => proof_id \in Range(s2.used_credit_proofs)
        /\ proof_id \in Range(s.used_credit_proofs)
             => ( /\ ~scored_success(s, sender, si, ok, s2)
                  /\ s2.used_credit_proofs = s.used_credit_proofs )

batch_tag_ok(s, si, ok, s2) ==
    LET malformed == \/ si.orders = << >>
                     \/ Len(si.orders) > MaxBatchOrders
                     \/ has_duplicate_order(si.orders)
    IN  /\ malformed
             => ~ok /\ s2.executed_batch_matches = s.executed_batch_matches
        /\ ~malformed =>
             ( /\ ok => batch_id_of(si.orders) \in Range(s2.executed_batch_matches)
               /\ batch_id_of(si.orders) \in Range(s.executed_batch_matches) => ~ok )

C21_ReplayTagsPermanent ==
    [][ /\ is_prefix(gs.used_credit_proofs, gs'.used_credit_proofs)
        /\ is_prefix(gs.executed_batch_matches, gs'.executed_batch_matches)
        /\ (last'.kind = "si" /\ last'.si.op = "MintWithCreditScore")
             => credit_tag_ok(gs, last'.sender, last'.si, last'.ok, gs')
        /\ (last'.kind = "si" /\ last'.si.op = "ZeroSlipBatchMatch")
             => batch_tag_ok(gs, last'.si, last'.ok, gs') ]_vars

C21_Witness ==
    /\ last.kind = "si" /\ last.si.op = "ZeroSlipBatchMatch" /\ ~last.ok
    /\ Len(last.si.orders) = 2 /\ ~has_duplicate_order(last.si.orders)
    /\ batch_id_of(last.si.orders) \in Range(gs.executed_batch_matches)
    /\ Len(gs.executed_batch_matches) >= 2
    /\ gs.used_credit_proofs # << >>

\* C22: credit-score fallback.  A MintWithCreditScore whose oracle is not
\* trusted, whose proof is invalid or already used, or whose score is below
\* min_score_threshold, executed with the circuit breaker off, non-zero
\* amounts and room for the credits, succeeds as a MintSenior: the sender is
\* credited amount - amount/20 LUSD and the insurance fund amount/20.
falls_back(s, si) ==
    \/ si.oracle \notin Range(s.trusted_credit_oracles)
    \/ ~verify_credit_score_proof(si.credit_score_proof)
    \/ blake3_hash(si.credit_score_proof) \in Range(s.used_credit_proofs)
    \/ credit_score_of(si.credit_score_proof) < si.min_score_threshold

has_room(s, sender, si) ==
    /\ ~add_overflows(s.insurance_fund_balance, si.amount \div 20)
    /\ ~add_overflows(s.stabilization_pool_balance, si.collateral_amount)
    /\ ~add_overflows(lusd_of(s, sender), si.amount)
    /\ ~add_overflows(s.total_lusd_supply, si.amount)
    /\ ~add_overflows(Entry(s, sender).accounts[sender].epoch_tx_volume, si.amount)

C22_CreditScoreFallback ==
    [][ ( /\ last'.kind = "si" /\ last'.si.op = "MintWithCreditScore"
          /\ falls_back(gs, last'.si)
          /\ ~gs.circuit_breaker_active
          /\ last'.si.amount > 0 /\ last'.si.collateral_amount > 0
          /\ has_room(gs, last'.sender, last'.si) )
        => ( /\ last'.ok
             /\ lusd_of(gs', last'.sender)
                   = lusd_of(gs, last'.sender) + last'.si.amount - (last'.si.amount \div 20)
             /\ gs'.insurance_fund_balance
                   = gs.insurance_fund_balance + (last'.si.amount \div 20) ) ]_vars

\* C23: supply conservation under transfer.  A successful Transfer of any
\* asset (LUSD, LJUN, native, custom) leaves total_lusd_supply,
\* total_ljun_supply, stabilization_pool_balance and insurance_fund_balance
\* unchanged; the sender's balance of the asset drops by amount and the
\* recipient's rises by amount (both at once when they are the same account),
\* so the sum of the asset's balances over all accounts is preserved; every
\* balance of every other account, and every other balance of the two, is
\* unchanged.
Assets == {"LUSD", "LJUN", "Lumina", "Custom:BTC", "Custom:ETH"}

asset_balance(s, a, asset) ==
    IF a \notin DOMAIN s.accounts THEN 0
    ELSE IF is_custom(asset)
         THEN IF asset \in DOMAIN s.accounts[a].custom_balances
              THEN s.accounts[a].custom_balances[asset] ELSE 0
         ELSE s.accounts[a][balance_field(asset)]

RECURSIVE sum_balances(_, _, _)
sum_balances(s, addrs, asset) ==
    IF addrs = {} THEN 0
    ELSE LET a == CHOOSE x \in addrs : TRUE
         IN  asset_balance(s, a, asset) + sum_balances(s, addrs \ {a}, asset)

transfer_conserves(s, sender, si, s2) ==
    LET delta(a) == (IF a = si.to THEN si.amount ELSE 0)
                    - (IF a = sender THEN si.amount ELSE 0)
    IN  /\ s2.total_lusd_supply = s.total_lusd_supply
        /\ s2.total_ljun_supply = s.total_ljun_supply
        /\ s2.stabilization_pool_balance = s.stabilization_pool_balance
        /\ s2.insurance_fund_balance = s.insurance_fund_balance
        /\ \A a \in Addrs : \A t \in Assets :
              asset_balance(s2, a, t)
                = asset_balance(s, a, t) + (IF t = si.asset THEN delta(a) ELSE 0)
        /\ sum_balances(s2, Addrs, si.asset) = sum_balances(s, Addrs, si.asset)

C23_TransferConservesSupply ==
    [][ (last'.kind = "si" /\ last'.si.op = "Transfer" /\ last'.ok)
        => transfer_conserves(gs, last'.sender, last'.si, gs') ]_vars

C23_Witness ==
    /\ last.kind = "si" /\ last.si.op = "Transfer" /\ last.ok
    /\ last.si.asset = "Custom:BTC" /\ last.si.to = 16
    /\ asset_balance(gs, 16, "Custom:BTC") = 30
    /\ asset_balance(gs, 16, "LUSD") = 4
    /\ gs.total_lusd_supply = 20

\* C24: no silent wrap and no side effects on overflow.  A Transfer whose
\* sender holds the amount and whose credit would overflow the recipient's
\* balance returns an error, and every balance of every account is what it
\* was before the instruction.
credit_overflows(s, sender, si) ==
    /\ si.amount > 0
    /\ si.to # sender
    /\ asset_balance(s, sender, si.asset) >= si.amount
    /\ add_overflows(asset_balance(s, si.to, si.asset), si.amount)

C24_NoSideEffectsOnOverflow ==
    [][ ( /\ last'.kind = "si" /\ last'.si.op = "Transfer"
          /\ credit_overflows(gs, last'.sender, last'.si) )
        => ( /\ ~last'.ok
             /\ \A a \in Addrs : \A t \in Assets :
                   asset_balance(gs', a, t) = asset_balance(gs, a, t) ) ]_vars

\* C25: MintSenior fee routing.  A successful MintSenior{amount,
\* collateral_amount} adds fee = floor(amount / 20) to insurance_fund_balance,
\* amount - fee to the sender's LUSD balance and to total_lusd_supply,
\* collateral_amount to stabilization_pool_balance and the full amount to the
\* sender's epoch_tx_volume; the insurance and supply increases add up to
\* amount.
epoch_tx_volume_of(s, a) == Entry(s, a).accounts[a].epoch_tx_volume

fee_routed(s, sender, si, s2) ==
    LET fee == si.amount \div 20
    IN  /\ s2.insurance_fund_balance = s.insurance_fund_balance + fee
        /\ lusd_of(s2, sender) = lusd_of(s, sender) + (si.amount - fee)
        /\ s2.total_lusd_supply = s.total_lusd_supply + (si.amount - fee)
        /\ s2.stabilization_pool_balance = s.stabilization_pool_balance + si.collateral_amount
        /\ epoch_tx_volume_of(s2, sender) = epoch_tx_volume_of(s, sender) + si.amount
        /\ (s2.insurance_fund_balance - s.insurance_fund_balance)
             + (s2.total_lusd_supply - s.total_lusd_supply) = si.amount

C25_MintSeniorFeeRouting ==
    [][ (last'.kind = "si" /\ last'.si.op = "MintSenior" /\ last'.ok)
        => fee_routed(gs, last'.sender, last'.si, gs') ]_vars

C25_Witness ==
    /\ last.kind = "si" /\ last.si.op = "MintSenior" /\ last.ok
    /\ last.si.amount = 30
    /\ gs.insurance_fund_balance = 1
    /\ gs.total_lusd_supply = 34
    /\ lusd_of(gs, 0) = 34

\* C26: the parallel pre-check is not a semantics change.  For every state
\* and every ordered list of transactions,
\* execute_transactions_parallel_non_conflicting succeeds exactly when the
\* serial execution of the list with execute_transaction succeeds for every
\* transaction, and leaves the state the serial execution leaves (stopped at
\* its first error).
C26_ParallelEqualsSerial ==
    [][ last'.kind = "batch"
        => \E serial \in { execute_all(last'.txs, gs, Ctx(height, << 0, 1, 16 >>)) } :
              last'.ok = serial.ok /\ gs' = serial.st ]_vars

(* ---------------------- the write-ahead log: claims ------------------- *)
\* the height committed last: the height of the last successful commit, or
\* the initial height before any
committed_height(l) ==
    IF l.committed = << >> THEN l.initial_height ELSE l.committed[Len(l.committed)]

\* C27: when the application stops with a block in flight and is started
\* again over the same storage and WAL path, the new application has the same
\* in-flight block (height, timestamp and delivered bytes in order) and a
\* committed height equal to the height committed before the stop.
C27_WalRecovery ==
    [][(last'.kind = "restart" /\ inflight # None)
        => (inflight' = inflight /\ height' = committed_height(last))]_vars

\* the outcome of a stop inside the commit of the block in flight: nothing
\* of the block is stored and the restart restores its in-flight record, or
\* the state after the block (post) is stored and no record is restored; a
\* restored record can be committed, and the commit gives the state post
stop_in_commit_ok(post, resumed) ==
    /\ \/ (db' = db /\ inflight' = inflight)
       \/ (db'.global_state = Some(post) /\ inflight' = None)
    /\ inflight' # None => (resumed.ok /\ resumed.app.state = post)

\* C28: commit and the clearing of the WAL are atomic.  After a stop at any
\* point during commit and a restart, either the block is not committed and
\* its in-flight record is restored, or its state is persisted and no record
\* is restored; and resuming with commit succeeds and applies the block's
\* transactions once.
C28_CommitAtomicWithWal ==
    [][last'.kind = "restart_in_commit"
        => stop_in_commit_ok(commit(App).app.state, commit(App'))]_vars

\* C29: the heights returned by successive successful commits strictly
\* increase along every execution, restarts of the application included.
C29_CommittedHeightsIncrease ==
    \A i \in 1 .. Len(last.committed) - 1 : last.committed[i] < last.committed[i + 1]

(* ------------------------ the shared state: claims -------------------- *)
\* the committed snapshot of the canonical tip: the state stored for the tip
\* block, or the genesis state before any block
tip_snapshot(d) ==
    IF load_tip(d) = None \/ load_tip(d)[1][2] = ZERO_HASH THEN create_genesis_state
    ELSE load_state_by_hash(d, load_tip(d)[1][2])[1]

\* C30: under any interleaving of the consensus service and the API handlers
\* the shared in-memory GlobalState equals the committed snapshot of the
\* canonical tip (the genesis state before any block).
C30_ReadersSeeCommittedSnapshots == state = tip_snapshot(db)

(* ----------------------- the stepwise import: claims ------------------ *)
\* the canonical height map, the stored tip and the in-memory state of a view
chain_of(view) == << view.canonical, view.tip, view.state >>

\* C31: reorgs are atomic to observers.  At every point of an import a
\* reader of the storage and of the shared state sees the canonical height
\* map, the stored tip and the in-memory state either all as before the
\* import or all as after it: never a map that mixes the two chains, nor a
\* tip, map and state of different tips.
C31_ReorgAtomicToObservers ==
    pending # << >>
    => chain_of(View(db, state)) \in {chain_of(lastImport.before), chain_of(lastImport.after)}

\* C32: a failed reorg leaves the canonical chain unchanged.  When a storage
\* write of the import fails, the canonical map, the per-height snapshots,
\* the latest state, the tip and the in-memory state are as before the
\* import call.
C32_FailedReorgChangesNothing ==
    lastImport.kind = "failed" => View(db, state) = lastImport.before

\* after a reorg to the tip T at new_height: every block of the ancestry of
\* T is the canonical block of its height and its state is the snapshot of
\* that height; the latest state and the in-memory state are the state of T;
\* the stored tip is (new_height, T); and the next proposal of run() starts
\* from the state of T with prev_hash = T
rebound_to(d, st, T, new_height) ==
    /\ \A b \in Range(walk_back(d, T)) :
          /\ Get(d.canonical_hash_by_height, b[1]) = Some(b[2])
          /\ load_state_by_height(d, b[1]) = load_state_by_hash(d, b[2])
    /\ d.global_state = load_state_by_hash(d, T)
    /\ Some(st) = load_state_by_hash(d, T)
    /\ load_tip(d) = Some(<< new_height, T >>)
    /\ load_state_by_height(d, current_height) = load_state_by_hash(d, T)
    /\ last_block_hash = T

\* C33: snapshot rebinding.  After every successful reorg to a tip the
\* canonical map and the per-height snapshots hold the ancestry of the tip,
\* the latest and the in-memory state are the tip's state, load_tip returns
\* the tip, and the next local proposal is built on it.
C33_SnapshotRebinding ==
    lastImport.kind = "reorg"
    => rebound_to(db, state, Block_hash(lastImport.block), lastImport.block.header.height)

(* ---------------------- flash-mint collateral: claims ------------------ *)
\* C34: a FlashMint{amount, collateral_amount} succeeds only if
\* collateral_amount >= floor(amount * 110 / 100), computed exactly, however
\* large the amount is.
C34_FlashMintOverCollateralised ==
    [][(last'.kind = "si" /\ last'.si.op = "FlashMint" /\ last'.ok)
        => last'.si.collateral_amount >= (last'.si.amount * 110) \div 100]_vars

(* ---------------------- real-world assets: claims ---------------------- *)
\* a call of UseRWAAsCollateral on a listing that is unknown, deactivated or
\* not eligible as collateral
unusable_listing(s, si) ==
    \/ si.rwa_id \notin DOMAIN s.rwa_listings
    \/ ~s.rwa_listings[si.rwa_id].is_active
    \/ ~s.rwa_listings[si.rwa_id].collateral_eligibility

\* C35: the pledge cap of real-world assets.  Every listing has
\* pledged_amount <= attested_value; the ids come from next_rwa_id, which
\* only grows, a successful ListRWA takes the id next_rwa_id and adds one to
\* it, and no listing is overwritten; the LUSD minted through
\* UseRWAAsCollateral against a listing never exceeds its attested_value; and
\* UseRWAAsCollateral fails on an unknown, deactivated or ineligible listing.
C35_RwaPledgeCap ==
    [][LET L == gs.rwa_listings
           L2 == gs'.rwa_listings
       IN  /\ \A rid \in DOMAIN L2 :
                 /\ L2[rid].pledged_amount <= L2[rid].attested_value
                 /\ rid < gs'.next_rwa_id
           /\ gs'.next_rwa_id >= gs.next_rwa_id
           /\ \A rid \in DOMAIN L :
                 /\ rid \in DOMAIN L2
                 /\ L2[rid].pledged_amount >= L[rid].pledged_amount
                 /\ L2[rid] = [L[rid] EXCEPT !.pledged_amount = L2[rid].pledged_amount]
           /\ (last'.si.op = "ListRWA" /\ last'.ok)
                 => /\ gs.next_rwa_id \notin DOMAIN L
                    /\ DOMAIN L2 = DOMAIN L \cup {gs.next_rwa_id}
                    /\ gs'.next_rwa_id = gs.next_rwa_id + 1
           /\ (last'.si.op = "ListRWA" /\ ~last'.ok) => DOMAIN L2 = DOMAIN L
           /\ \A rid \in DOMAIN last'.minted :
                 last'.minted[rid] <= IF rid \in DOMAIN L2 THEN L2[rid].attested_value ELSE 0
           /\ (last'.si.op = "UseRWAAsCollateral" /\ unusable_listing(gs, last'.si))
                 => ~last'.ok /\ gs' = gs]_vars

\* a listing pledged to its full attested value, all of it minted, has just
\* refused a further pledge
C35_Witness ==
    /\ last.kind = "si" /\ last.si.op = "UseRWAAsCollateral" /\ ~last.ok
    /\ last.si.rwa_id \in DOMAIN gs.rwa_listings
    /\ last.si.rwa_id \in DOMAIN last.minted
    /\ gs.rwa_listings[last.si.rwa_id].pledged_amount
          = gs.rwa_listings[last.si.rwa_id].attested_value
    /\ last.minted[last.si.rwa_id] = gs.rwa_listings[last.si.rwa_id].attested_value
    /\ last.si.amount_to_pledge > 0

(* ------------------------- yield tokens: claims ------------------------ *)
held_positions(s, a) == IF a \in DOMAIN s.accounts THEN s.accounts[a].yield_positions ELSE << >>

\* token ids are unique over all accounts and below the id counter
unique_token_ids(s) ==
    /\ \A x, y \in positions(s) : x[2].token_id = y[2].token_id => x = y
    /\ \A a \in DOMAIN s.accounts : \A i, j \in 1 .. Len(s.accounts[a].yield_positions) :
          s.accounts[a].yield_positions[i].token_id = s.accounts[a].yield_positions[j].token_id
             => i = j
    /\ \A x \in positions(s) : x[2].token_id < s.next_yield_token_id

\* positions appear only by a successful wrap, which draws the id counter
wraps_draw_ids ==
    /\ gs'.next_yield_token_id >= gs.next_yield_token_id
    /\ \A x \in positions(gs') \ positions(gs) :
          /\ last'.kind = "si" /\ last'.si.op = "WrapToYieldToken" /\ last'.ok
          /\ last'.sender = x[1]
          /\ x[2].token_id = gs.next_yield_token_id
          /\ gs'.next_yield_token_id = gs.next_yield_token_id + 1

\* positions disappear only by the holder's unwrap at or after maturity, once,
\* and the holder is credited at least the principal
unwraps_by_holder_at_maturity ==
    \A x \in positions(gs) \ positions(gs') :
          /\ last'.kind = "si" /\ last'.si.op = "UnwrapYieldToken"
          /\ last'.sender = x[1] /\ last'.si.token_id = x[2].token_id
          /\ height >= x[2].maturity_height
          /\ x[2].token_id \notin unwrapped_so_far(last)
          /\ lusd_held(gs', x[1]) - lusd_held(gs, x[1]) >= x[2].principal

\* an unwrap of a token the sender does not hold, or before its maturity
early_or_unknown(s, h, sender, token_id) ==
    LET i == position_of(held_positions(s, sender), token_id)
    IN  i = 0 \/ h < held_positions(s, sender)[i].maturity_height

\* C36: the lifecycle of a yield position.  Token ids are unique
\* (next_yield_token_id strictly increases); a position is unwrapped only by
\* the account that wrapped it and only at a height >= maturity_height; an
\* UnwrapYieldToken before maturity or for an unknown token fails without
\* changing the state; each position is unwrapped at most once and returns at
\* least its principal.
C36_YieldPositionLifecycle ==
    [][/\ unique_token_ids(gs')
       /\ wraps_draw_ids
       /\ unwraps_by_holder_at_maturity
       /\ (last'.kind = "si" /\ last'.si.op = "UnwrapYieldToken"
             /\ early_or_unknown(gs, height, last'.sender, last'.si.token_id))
            => ~last'.ok /\ gs' = gs]_vars

(* --------------------------- solvency: claims -------------------------- *)
RECURSIVE sum_lusd_balance(_, _)
sum_lusd_balance(s, addrs) ==
    IF addrs = {} THEN 0
    ELSE LET a == CHOOSE x \in addrs : TRUE
         IN  s.accounts[a].lusd_balance + sum_lusd_balance(s, addrs \ {a})

\* C37: LUSD solvency.  From genesis, after any sequence of instructions,
\* successful or failed, the sum of lusd_balance over all accounts is at most
\* total_lusd_supply.
C37_LusdSolvency == sum_lusd_balance(gs, DOMAIN gs.accounts) <= gs.total_lusd_supply

(* ----------------------- replay protection: claims --------------------- *)
\* C38: replay protection.  A signed transaction is accepted at most once,
\* and no step lowers or resets the nonce of an account.
C38_ReplayProtection ==
    [][/\ (last'.kind = "tx" /\ last'.ok) => last'.tx \notin last.accepted
       /\ \A a \in Addrs : stored_nonce(gs', a) >= stored_nonce(gs, a)]_vars

\* a transaction accepted earlier has just been submitted again and refused,
\* after a later transaction of the same sender was accepted
C38_Witness ==
    /\ last.kind = "tx" /\ ~last.ok
    /\ last.tx \in last.accepted
    /\ \E tx \in last.accepted : tx.sender = last.tx.sender /\ tx.nonce > last.tx.nonce

(* -------------------- out-of-order delivery: claims -------------------- *)
imported(d, block) == load_block_meta(d, Block_hash(block)) # None
ancestors_imported(d, block) ==
    block.header.height = 1 \/ load_block_meta(d, block.header.prev_hash) # None

\* C39: out-of-order delivery is recoverable.  A valid block that was
\* delivered before its parent and rejected is imported when it is delivered
\* again after the parent: every delivery of a block of the peer whose
\* ancestors are imported leaves the block imported, so that a block that
\* keeps being delivered is imported in the end.
C39_OutOfOrderRecoverable ==
    [][\A block \in DeliveryBlocks :
          (delivered(block)' /\ ancestors_imported(db, block)) => imported(db', block)]_vars

(* ------------------------ failed commits: claims ----------------------- *)
\* C40: a failed commit changes nothing.  When commit returns an error
\* because a transaction of the in-flight block does not decode or does not
\* execute, the in-memory state, the committed height and the persisted state
\* are as before the call, and the in-flight block is still present.
C40_FailedCommitChangesNothing ==
    [][(last'.kind = "commit" /\ ~last'.ok /\ inflight # None)
        => /\ gs' = gs
           /\ height' = height
           /\ db' = db
           /\ inflight' = inflight]_vars

====
